---- MODULE Spec2Model ----
(***************************************************************************)
(* The time-series dataset engine of odmf (src/odmf/db/dataset.py):        *)
(* datasets, their records, and the operations split, findvalue,           *)
(* findjumps, statistics and adjusttimespan of Timeseries, the series,     *)
(* updatetime and suitablesources of TransformedTimeseries,                *)
(* finddateGaps of src/dataimport/base.py (time in half days there),       *)
(* copy, removedataset, addrecord, the calibration of records,             *)
(* DatasetGroup, and new and addrecord of the dataset API                  *)
(* (src/odmf/webpage/api/dataset_api.py).  In the specification of the     *)
(* concurrent requests pc, call and result hold one entry per request.     *)
(*                                                                         *)
(* Time is counted in ticks of 25 ms, so that the 0.1 s tie-break of       *)
(* findvalue is TieBreakTicks = 4 ticks; a time distance the code reports   *)
(* in seconds (timedelta.total_seconds()) is reported here in ticks.        *)
(* A nullable column holds <<>> (NULL) or <<v>>.  Floating-point values are *)
(* exact rationals num/den; rounding is not modelled.                       *)
(*                                                                         *)
(* The record table is a sequence in the store's physical row order: a      *)
(* query ordered by time returns rows of equal time in that order (reverse  *)
(* for a descending scan).  Init ranges over all row orders.                *)
(***************************************************************************)
EXTENDS Integers, Sequences, FiniteSets, TLC

VARIABLES
    datasets,   \* committed store: dataset id -> dataset row
    records,    \* committed store: the record table, in physical row order
    sess,       \* the ORM session's view: the store plus its uncommitted changes
    pc,         \* position of the running split ("idle" when none runs)
    call,       \* locals of the last split call, and the store before it
    result      \* what the last operation returned or raised

vars == <<datasets, records, sess, pc, call, result>>
----------------------------------------------------------------------------
(* Bounds of the model *)

MaxRecs == 2        \* records in the store of the split specification
MaxTime == 2        \* times 0..MaxTime of the split specification
MaxDs == 2          \* highest dataset id a split may allocate
MaxRecsFV == 2      \* records in the store of the findvalue specification
MaxTimeFV == 4      \* times 0..MaxTimeFV of the findvalue specification
MaxRecsFJ == 3      \* records in the store of the findjumps specification
MaxTimeFJ == 2      \* times 0..MaxTimeFJ of the findjumps specification
MaxRecsST == 2      \* records in the store of the statistics specification
MaxRecsTS == 2      \* records in the store of the timespan specification
MaxTimeTS == 3      \* times 0..MaxTimeTS of the timespan specification
MaxDsGap == 2       \* datasets in the store of the gaps specification
MaxTimeGap == 3     \* times 0..MaxTimeGap (half days) of the gaps specification
MaxSrcTR == 2       \* source datasets of the transformation specification
MaxRecsTR == 2      \* records in the store of the transformation specification
MaxTimeTR == 1      \* times 0..MaxTimeTR of the transformation specification
MaxSrcUT == 2       \* timeseries of the updatetime specification
MaxTimeUT == 2      \* times 0..MaxTimeUT of the updatetime specification
MaxSrcSS == 4       \* timeseries of the sources specification
MaxDsCP == 3        \* highest dataset id of the copy specification
MaxTimeCP == 2      \* times 0..MaxTimeCP of the copy specification
MaxRecsCP == 1      \* records in the store of the copy specification
MaxDsRM == 2        \* timeseries in the store of the removal specification
MaxRecsRM == 2      \* records in the store of the removal specification
MaxRecsAR == 2      \* records in the store of the addrecord specification
MaxTimeAR == 1      \* times 0..MaxTimeAR of the addrecord specification
MaxValueAR == 3     \* values 0..MaxValueAR given to addrecord
MaxRecsCA == 2      \* records in the store of the calibration specification
MaxTimeCA == 1      \* times 0..MaxTimeCA of the calibration specification
MaxRecsCC == 2      \* records in the store of the concurrent requests
MaxTimeCC == 1      \* times 0..MaxTimeCC of the concurrent requests
MaxDsLC == 3        \* dataset ids 1..MaxDsLC of the lifecycle specification
MaxRecsLC == 3      \* records of the first state of the lifecycle specification
MaxTimeLC == 2      \* times 0..MaxTimeLC of the lifecycle specification
MaxRecsGR == 2      \* records in the store of the group specification
MaxTimeGR == 2      \* times 0..MaxTimeGR of the group specification

(* Program constants *)

TieBreakTicks == 4  \* 0.1 s, dataset.py:437
OneDay == 2         \* timedelta(days=1) in half days, dataimport/base.py:43

NULL == <<>>
NONE == <<>>

Some(v) == <<v>>
Get(o) == o[1]

\* The least and the greatest element of a set of numbers.
MinOf(S) == CHOOSE x \in S : \A y \in S : x <= y
MaxOf(S) == CHOOSE x \in S : \A y \in S : x >= y
----------------------------------------------------------------------------
(* Data model *)

\* Dataset row (dataset.py:126-163), the fields the operations read or write.
\* comment is the sequence of notes appended to the free-text comment.
Dataset(type, start, end, slope, offset, comment) ==
    [type |-> type, start |-> start, end |-> end,
     calibration_slope |-> slope, calibration_offset |-> offset,
     comment |-> comment]

\* Record row (dataset.py:300-309); its key is (id, ds).
Record(id, ds, time, value, err) ==
    [id |-> id, ds |-> ds, time |-> time, value |-> value, is_error |-> err]

Store(dss, recs) == [datasets |-> dss, records |-> recs]
----------------------------------------------------------------------------
(* Queries of the record table *)

\* self.records: the rows of dataset d (backref of Record.dataset), as indices.
RecordsOf(recs, d) == {i \in DOMAIN recs : recs[i].ds = d}

\* The filter of findvalue and findjumps: Record.value.isnot(None), ~Record.is_error.
Valid(r) == r.value # NULL /\ ~r.is_error

\* .order_by(Record.time).first(): 0 when the query is empty.
FirstByTime(recs, S) ==
    IF S = {} THEN 0
    ELSE CHOOSE i \in S : \A j \in S :
            \/ recs[i].time < recs[j].time
            \/ recs[i].time = recs[j].time /\ i <= j

\* .order_by(sql.desc(Record.time)).first(): 0 when the query is empty.
FirstByTimeDesc(recs, S) ==
    IF S = {} THEN 0
    ELSE CHOOSE i \in S : \A j \in S :
            \/ recs[i].time > recs[j].time
            \/ recs[i].time = recs[j].time /\ i >= j

\* .order_by(Record.time) iterated: the rows of S in ascending time.
RECURSIVE OrderByTime(_, _)
OrderByTime(recs, S) ==
    IF S = {} THEN <<>>
    ELSE LET i == FirstByTime(recs, S)
         IN  <<i>> \o OrderByTime(recs, S \ {i})

\* newid(Dataset, session): the highest dataset id plus one, 1 on an empty table.
NewId(dss) ==
    IF DOMAIN dss = {} THEN 1
    ELSE (CHOOSE m \in DOMAIN dss : \A k \in DOMAIN dss : k <= m) + 1
----------------------------------------------------------------------------
(* Dataset.copy and Timeseries.split *)

\* Dataset.copy(id): a new row with the same metadata; the id is its key in
\* the dataset table.  The valuetype is passed on where the row carries one.
Copy(ds) ==
    LET row == Dataset(ds.type, ds.start, ds.end,
                       ds.calibration_slope, ds.calibration_offset, ds.comment)
    IN  IF "valuetype" \in DOMAIN ds
        THEN row @@ [valuetype |-> ds.valuetype]
        ELSE row

\* Mutant: split looks for its next record as findvalue does, among the
\* records that are not flagged as errors.
SplitNextNoErrors(recs, d, time) ==
    FirstByTime(recs, {i \in RecordsOf(recs, d) :
        recs[i].time >= time /\ recs[i].value # NULL /\ ~recs[i].is_error})

\* split, lines 361-362: the first non-null record at or after time.
SplitNext(recs, d, time) ==
    FirstByTime(recs, {i \in RecordsOf(recs, d) :
                          recs[i].time >= time /\ recs[i].value # NULL})

\* split, lines 363-364: the last non-null record at or before time.
SplitLast(recs, d, time) ==
    FirstByTimeDesc(recs, {i \in RecordsOf(recs, d) :
                              recs[i].time <= time /\ recs[i].value # NULL})

\* split, line 365: the split point is accepted.
SplitAccepted(next, last) == ~(next = 0 \/ last = 0)

\* split, line 374: the records that go to the new dataset.
SplitRecords(recs, d, nextTime) ==
    {i \in RecordsOf(recs, d) : recs[i].time >= nextTime}

\* Mutant: the comment note of line 368 is written before the check of line 365.
SplitBeginNoteFirst(d, time) ==
    /\ pc = "idle"
    /\ d \in DOMAIN sess.datasets
    /\ sess.datasets[d].type = "timeseries"
    /\ NewId(sess.datasets) <= MaxDs
    /\ LET next == SplitNext(sess.records, d, time)
           last == SplitLast(sess.records, d, time)
           before == Store(datasets, records)
           noted == [sess EXCEPT !.datasets[d].comment =
                        Append(@, <<"splitted at", time>>)]
       IN  IF ~SplitAccepted(next, last)
           THEN /\ result' = [op |-> "split", status |-> "InvalidSplitPoint"]
                /\ call' = [op |-> "split", d |-> d, time |-> time,
                            before |-> before]
                /\ sess' = noted
                /\ UNCHANGED <<datasets, records, pc>>
           ELSE /\ sess' = noted
                /\ call' = [op |-> "split", d |-> d, time |-> time,
                            before |-> before,
                            nextTime |-> sess.records[next].time,
                            lastTime |-> sess.records[last].time,
                            new |-> 0, todo |-> {}]
                /\ pc' = "copy"
                /\ UNCHANGED <<datasets, records, result>>

\* split, lines 361-368: the two queries, the check, the first comment note.
SplitBegin(d, time) ==
    /\ pc = "idle"
    /\ d \in DOMAIN sess.datasets
    /\ sess.datasets[d].type = "timeseries"
    /\ NewId(sess.datasets) <= MaxDs
    /\ LET next == SplitNext(sess.records, d, time)
           last == SplitLast(sess.records, d, time)
           before == Store(datasets, records)
       IN  IF ~SplitAccepted(next, last)
           THEN /\ result' = [op |-> "split", status |-> "InvalidSplitPoint"]
                /\ call' = [op |-> "split", d |-> d, time |-> time,
                            before |-> before]
                /\ UNCHANGED <<datasets, records, sess, pc>>
           ELSE /\ sess' = [sess EXCEPT !.datasets[d].comment =
                                Append(@, <<"splitted at", time>>)]
                /\ call' = [op |-> "split", d |-> d, time |-> time,
                            before |-> before,
                            nextTime |-> sess.records[next].time,
                            lastTime |-> sess.records[last].time,
                            new |-> 0, todo |-> {}]
                /\ pc' = "copy"
                /\ UNCHANGED <<datasets, records, result>>

\* split, lines 369-374: the new id, the copy, the cross references, the two
\* time bounds, and the query of the records to move.
SplitCopy ==
    /\ pc = "copy"
    /\ LET d == call.d
           new == NewId(sess.datasets)
           self == sess.datasets[d]
           dsnew == Copy(self)
           self2 == [self EXCEPT
                       !.comment = Append(@, <<"other part", new>>),
                       !.end = call.lastTime]
           dsnew2 == [dsnew EXCEPT
                       !.comment = Append(@, <<"other part", d>>),
                       !.start = call.nextTime]
       IN  /\ sess' = [sess EXCEPT !.datasets =
                          [k \in DOMAIN sess.datasets \cup {new} |->
                              IF k = new THEN dsnew2
                              ELSE IF k = d THEN self2
                              ELSE sess.datasets[k]]]
           /\ call' = [call EXCEPT !.new = new,
                          !.todo = SplitRecords(sess.records, d, call.nextTime)]
    /\ pc' = "reassign"
    /\ UNCHANGED <<datasets, records, result>>

\* Mutant: each reassignment is written to the store at once (autocommit).
SplitReassignAutocommit ==
    /\ pc = "reassign"
    /\ call.todo # {}
    /\ LET i == CHOOSE i \in call.todo : \A j \in call.todo : i <= j
       IN  /\ sess' = [sess EXCEPT !.records[i].ds = call.new]
           /\ records' = [records EXCEPT ![i].ds = call.new]
           /\ datasets' = sess.datasets
           /\ call' = [call EXCEPT !.todo = @ \ {i}]
    /\ UNCHANGED <<pc, result>>

\* split, lines 377-378: one turn of the loop, record.dataset = dsnew.
SplitReassign ==
    /\ pc = "reassign"
    /\ call.todo # {}
    /\ LET i == CHOOSE i \in call.todo : \A j \in call.todo : i <= j
       IN  /\ sess' = [sess EXCEPT !.records[i].ds = call.new]
           /\ call' = [call EXCEPT !.todo = @ \ {i}]
    /\ UNCHANGED <<datasets, records, pc, result>>

\* split, lines 380-381: after the loop, session.commit() and the return.
SplitCommit ==
    /\ pc = "reassign"
    /\ call.todo = {}
    /\ datasets' = sess.datasets
    /\ records' = sess.records
    /\ pc' = "idle"
    /\ result' = [op |-> "split", status |-> "ok"]
    /\ UNCHANGED <<sess, call>>

\* The store fails under a statement of the running split (the id query of
\* line 369, the record query of line 377, the flush or commit of line 380):
\* the exception leaves split, and the unit of work the call runs in rolls the
\* session back.
StoreFail ==
    /\ pc \in {"copy", "reassign"}
    /\ sess' = Store(datasets, records)
    /\ pc' = "idle"
    /\ result' = [op |-> "split", status |-> "StoreUnavailable"]
    /\ UNCHANGED <<datasets, records, call>>
----------------------------------------------------------------------------
(* The split specification *)

NoCall == [op |-> "none"]
NoResult == [op |-> "none"]

\* The columns of a record that Init chooses.
Row(times, values) == [time : times, value : values, is_error : BOOLEAN]

\* A record table of n rows of dataset d, ids 1..n.
Table(d, f) == [i \in DOMAIN f |-> Record(i, d, f[i].time, f[i].value, f[i].is_error)]

SplitValues == {NULL, Some(0)}

\* The raw values of the records.
RawValues == {Some(0), Some(1)}

\* The calibrations (slope, offset) of the dataset: the default and another.
Calibrations == {<<1, 0>>, <<2, 1>>}

Init ==
    /\ datasets = (1 :> Dataset("timeseries", 0, MaxTime, 1, 0, <<>>))
    /\ \E n \in 0..MaxRecs :
         \E f \in [1..n -> Row(0..MaxTime, SplitValues)] :
             records = Table(1, f)
    /\ sess = Store(datasets, records)
    /\ pc = "idle"
    /\ call = NoCall
    /\ result = NoResult

Next ==
    \/ \E d \in 1..MaxDs, time \in 0..MaxTime : SplitBegin(d, time)
    \/ SplitCopy
    \/ SplitReassign
    \/ SplitCommit
    \/ StoreFail

Spec == Init /\ [][Next]_vars
----------------------------------------------------------------------------
(* Timeseries.findvalue *)

\* A rational number num/den, den > 0.
Rat(num, den) == <<num, den>>
RatEq(a, b) == a[1] * b[2] = b[1] * a[2]

\* Mutant: the query of next leaves out the filter ~Record.is_error.
FindNextWithErrors(recs, d, time) ==
    FirstByTime(recs, {i \in RecordsOf(recs, d) :
                          recs[i].time >= time /\ recs[i].value # NULL})

\* findvalue, lines 429-430: the first valid record at or after time.
FindNext(recs, d, time) ==
    FirstByTime(recs, {i \in RecordsOf(recs, d) :
                          recs[i].time >= time /\ Valid(recs[i])})

\* findvalue, lines 431-432: the last valid record at or before time.
FindLast(recs, d, time) ==
    FirstByTimeDesc(recs, {i \in RecordsOf(recs, d) :
                              recs[i].time <= time /\ Valid(recs[i])})

\* Mutant: each endpoint is weighted by its own fraction of the span.
InterpolateOwnFraction(next, last, time) ==
    LET dt_next == next.time - time
        dt_last == time - last.time
        dt == dt_next + dt_last
    IN  IF dt < TieBreakTicks
        THEN [status |-> "ok", value |-> Rat(Get(next.value), 1), dt |-> 0]
        ELSE [status |-> "ok",
              value |-> Rat(dt_next * Get(next.value)
                              + dt_last * Get(last.value), dt),
              dt |-> IF dt_last <= dt_next THEN dt_last ELSE dt_next]

\* findvalue, lines 434-440: both records exist.
Interpolate(next, last, time) ==
    LET dt_next == next.time - time
        dt_last == time - last.time
        dt == dt_next + dt_last
    IN  IF dt < TieBreakTicks
        THEN [status |-> "ok", value |-> Rat(Get(next.value), 1), dt |-> 0]
        ELSE [status |-> "ok",
              value |-> Rat((dt - dt_next) * Get(next.value)
                              + (dt - dt_last) * Get(last.value), dt),
              dt |-> IF dt_last <= dt_next THEN dt_last ELSE dt_next]

\* findvalue, lines 427-446: the value and the time distance, or the failure.
FindValue(recs, d, time) ==
    LET next == FindNext(recs, d, time)
        last == FindLast(recs, d, time)
    IN  IF next # 0 /\ last # 0
        THEN Interpolate(recs[next], recs[last], time)
        ELSE IF next # 0
        THEN [status |-> "ok", value |-> Rat(Get(recs[next].value), 1),
              dt |-> recs[next].time - time]
        ELSE IF last # 0
        THEN [status |-> "ok", value |-> Rat(Get(recs[last].value), 1),
              dt |-> time - recs[last].time]
        ELSE [status |-> "NoData"]

\* Mutant: findvalue stores what it found as a record at the time asked for.
FindValueCallCaching(d, time) ==
    /\ pc = "idle"
    /\ d \in DOMAIN sess.datasets
    /\ LET next == FindNext(sess.records, d, time)
           cached == IF next = 0 THEN sess.records
                     ELSE Append(sess.records,
                                 Record(Len(sess.records) + 1, d, time,
                                        sess.records[next].value, FALSE))
       IN  /\ result' = [op |-> "findvalue", d |-> d, time |-> time,
                         out |-> FindValue(sess.records, d, time),
                         prev |-> IF /\ result.op = "findvalue"
                                     /\ result.d = d
                                     /\ result.time = time
                                  THEN Some(result.out) ELSE NONE]
           /\ records' = cached
           /\ sess' = Store(datasets, cached)
    /\ UNCHANGED <<datasets, pc, call>>

\* A call of findvalue(time) on dataset d.  prev is what the call before it
\* returned, when that was a call with the same arguments.
FindValueCall(d, time) ==
    /\ pc = "idle"
    /\ d \in DOMAIN sess.datasets
    /\ result' = [op |-> "findvalue", d |-> d, time |-> time,
                  out |-> FindValue(sess.records, d, time),
                  prev |-> IF /\ result.op = "findvalue"
                              /\ result.d = d
                              /\ result.time = time
                           THEN Some(result.out) ELSE NONE]
    /\ UNCHANGED <<datasets, records, sess, pc, call>>

(* The findvalue specification *)

InitFindValue ==
    /\ \E c \in Calibrations :
         datasets = (1 :> Dataset("timeseries", 0, MaxTimeFV, c[1], c[2], <<>>))
    /\ \E n \in 0..MaxRecsFV :
         \E f \in [1..n -> Row(0..MaxTimeFV, {NULL} \cup RawValues)] :
             records = Table(1, f)
    /\ sess = Store(datasets, records)
    /\ pc = "idle"
    /\ call = NoCall
    /\ result = NoResult

NextFindValue == \E time \in 0..MaxTimeFV : FindValueCall(1, time)

SpecFindValue == InitFindValue /\ [][NextFindValue]_vars
----------------------------------------------------------------------------
(* Timeseries.findjumps *)

Abs(x) == IF x < 0 THEN -x ELSE x

\* start or self.start: the argument, or the default when it is None.
OrElse(opt, default) == IF opt = NONE THEN default ELSE Get(opt)

\* findjumps, lines 418-419: the valid records of the window.
JumpWindow(recs, ds, d, start, end) ==
    {i \in RecordsOf(recs, d) :
        /\ Valid(recs[i])
        /\ recs[i].time >= OrElse(start, ds.start)
        /\ recs[i].time <= OrElse(end, ds.end)}

\* Mutant: without the special case of threshold 0.0.
IsJumpNoSpecialCase(recs, rec, last, threshold) ==
    last # 0 /\ Abs(Get(recs[rec].value) - Get(recs[last].value)) > threshold

\* Mutant: a difference equal to the threshold counts as a jump.
IsJumpAtLeast(recs, rec, last, threshold) ==
    \/ threshold = 0
    \/ last # 0 /\ Abs(Get(recs[rec].value) - Get(recs[last].value)) >= threshold

\* findjumps, line 423: rec is yielded; last is 0 for None.
IsJump(recs, rec, last, threshold) ==
    \/ threshold = 0
    \/ last # 0 /\ Abs(Get(recs[rec].value) - Get(recs[last].value)) > threshold

\* findjumps, lines 420-425: the loop over the ordered records.
RECURSIVE JumpScan(_, _, _, _)
JumpScan(recs, order, last, threshold) ==
    IF order = <<>> THEN <<>>
    ELSE LET rec == Head(order)
         IN  IF recs[rec].value # NULL
             THEN (IF IsJump(recs, rec, last, threshold) THEN <<rec>> ELSE <<>>)
                    \o JumpScan(recs, Tail(order), rec, threshold)
             ELSE JumpScan(recs, Tail(order), last, threshold)

\* findjumps, lines 411-425: the records the iterator yields, as rows of recs.
FindJumps(recs, ds, d, threshold, start, end) ==
    JumpScan(recs, OrderByTime(recs, JumpWindow(recs, ds, d, start, end)),
             0, threshold)

\* A call of findjumps on dataset d, iterated to its end.  prev is what the
\* call before it yielded, when that was a call with the same arguments.
FindJumpsCall(d, threshold, start, end) ==
    /\ pc = "idle"
    /\ d \in DOMAIN sess.datasets
    /\ result' = [op |-> "findjumps", d |-> d, threshold |-> threshold,
                  start |-> start, end |-> end,
                  out |-> FindJumps(sess.records, sess.datasets[d], d,
                                    threshold, start, end),
                  prev |-> IF /\ result.op = "findjumps"
                              /\ result.d = d
                              /\ result.threshold = threshold
                              /\ result.start = start
                              /\ result.end = end
                           THEN Some(result.out) ELSE NONE]
    /\ UNCHANGED <<datasets, records, sess, pc, call>>

(* The findjumps specification *)

\* The records of its store: valid with raw value 0 or 2, null, or an error.
JumpRows ==
    [time : 0..MaxTimeFJ, value : {Some(0), Some(2)}, is_error : {FALSE}]
    \cup [time : 0..MaxTimeFJ, value : {NULL}, is_error : {FALSE}]
    \cup [time : 0..MaxTimeFJ, value : {Some(0)}, is_error : {TRUE}]

Thresholds == {0, 1, 2}

\* The dataset's span starts after the first time, so that a record can lie
\* before it.
InitFindJumps ==
    /\ datasets = (1 :> Dataset("timeseries", 1, MaxTimeFJ, 1, 0, <<>>))
    /\ \E n \in 0..MaxRecsFJ :
         \E f \in [1..n -> JumpRows] : records = Table(1, f)
    /\ sess = Store(datasets, records)
    /\ pc = "idle"
    /\ call = NoCall
    /\ result = NoResult

\* The windows asked for: the dataset's own span, and an explicit one.
Windows == {<<NONE, NONE>>, <<Some(0), Some(MaxTimeFJ - 1)>>}

NextFindJumps ==
    \E threshold \in Thresholds, w \in Windows :
        FindJumpsCall(1, threshold, w[1], w[2])

SpecFindJumps == InitFindJumps /\ [][NextFindJumps]_vars
----------------------------------------------------------------------------
(* Timeseries.statistics *)

\* Not a number: the mean or deviation of a series that holds a missing value.
NaN == Rat(0, 0)

\* A standard deviation sign * sqrt(sq), sq a rational.
Deviation(sign, sq) == [sign |-> sign, sq |-> sq]

RECURSIVE SumSeq(_)
SumSeq(xs) == IF xs = <<>> THEN 0 ELSE Head(xs) + SumSeq(Tail(xs))

Squares(xs) == [k \in DOMAIN xs |-> xs[k] * xs[k]]

Sign(x) == IF x < 0 THEN -1 ELSE IF x > 0 THEN 1 ELSE 0

\* statistics, lines 392-395: avg, stddev_samp and count of the values of the
\* dataset's rows; the aggregates skip NULL, and are NULL (<<>>) over no row
\* (stddev_samp over fewer than two).
Aggregate(recs, d) ==
    LET rows == OrderByTime(recs, {i \in RecordsOf(recs, d) : recs[i].value # NULL})
        xs == [k \in DOMAIN rows |-> Get(recs[rows[k]].value)]
        n == Len(xs)
        sum == SumSeq(xs)
        sumsq == SumSeq(Squares(xs))
    IN  [avg |-> IF n = 0 THEN NULL ELSE Some(Rat(sum, n)),
         std |-> IF n < 2 THEN NULL
                 ELSE Some(Rat(n * sumsq - sum * sum, n * (n - 1))),
         n |-> n]

\* statistics, lines 396-402: avg or 0.0, std or 0.0, and the calibration.
\* std holds the variance, so std * slope is sign(slope) * sqrt(var * slope^2).
Pushdown(recs, ds, d) ==
    LET agg == Aggregate(recs, d)
        avg == IF agg.avg = NULL \/ Get(agg.avg)[1] = 0
               THEN Rat(0, 1) ELSE Get(agg.avg)
        var == IF agg.std = NULL \/ Get(agg.std)[1] = 0
               THEN Rat(0, 1) ELSE Get(agg.std)
    IN  [mean |-> Rat(avg[1] * ds.calibration_slope
                        + ds.calibration_offset * avg[2], avg[2]),
         std |-> Deviation(Sign(var[1]) * Sign(ds.calibration_slope),
                           Rat(var[1] * ds.calibration_slope
                                 * ds.calibration_slope, var[2])),
         n |-> agg.n]

\* asseries, lines 526-553, without start and end: the calibrated values of
\* the rows that are no errors, in ascending time; a NULL value is NaN.
AsSeries(recs, ds, d) ==
    LET rows == OrderByTime(recs, {i \in RecordsOf(recs, d) : ~recs[i].is_error})
    IN  [k \in DOMAIN rows |->
            [time |-> recs[rows[k]].time,
             value |-> IF recs[rows[k]].value = NULL THEN NaN
                       ELSE Rat(Get(recs[rows[k]].value) * ds.calibration_slope
                                  + ds.calibration_offset, 1)]]

\* statistics, lines 405-409: numpy's mean and (population) std of the series.
Fallback(recs, ds, d) ==
    LET s == AsSeries(recs, ds, d)
        n == Len(s)
        xs == [k \in DOMAIN s |-> s[k].value[1]]
        sum == SumSeq(xs)
        sumsq == SumSeq(Squares(xs))
    IN  IF n = 0
        THEN [mean |-> Rat(0, 1), std |-> Deviation(0, Rat(0, 1)), n |-> 0]
        ELSE IF \E k \in DOMAIN s : s[k].value = NaN
        THEN [mean |-> NaN, std |-> Deviation(0, NaN), n |-> n]
        ELSE [mean |-> Rat(sum, n),
              std |-> Deviation(Sign(n * sumsq - sum * sum),
                                Rat(n * sumsq - sum * sum, n * n)),
              n |-> n]

\* statistics, lines 384-409: the aggregate of the store, or the fallback when
\* the store raises ProgrammingError or OperationalError on the aggregate.
Statistics(recs, ds, d, pushdown) ==
    IF pushdown THEN Pushdown(recs, ds, d) ELSE Fallback(recs, ds, d)

\* A call of statistics() on dataset d; pushdown tells whether the store has
\* the aggregate functions.
StatisticsCall(d, pushdown) ==
    /\ pc = "idle"
    /\ d \in DOMAIN sess.datasets
    /\ result' = [op |-> "statistics", d |-> d, pushdown |-> pushdown,
                  out |-> Statistics(sess.records, sess.datasets[d], d, pushdown)]
    /\ UNCHANGED <<datasets, records, sess, pc, call>>

\* DatasetAPI.statistics, lines 332-339: mean and std are 0.0 when n is 0.
ApiStatistics(recs, ds, d, pushdown) ==
    LET st == Statistics(recs, ds, d, pushdown)
    IN  IF st.n = 0
        THEN [mean |-> Rat(0, 1), std |-> Deviation(0, Rat(0, 1)), n |-> st.n]
        ELSE st

\* A request of /api/dataset/statistics for dataset d.
ApiStatisticsCall(d, pushdown) ==
    /\ pc = "idle"
    /\ d \in DOMAIN sess.datasets
    /\ result' = [op |-> "api.statistics", d |-> d, pushdown |-> pushdown,
                  out |-> ApiStatistics(sess.records, sess.datasets[d], d, pushdown)]
    /\ UNCHANGED <<datasets, records, sess, pc, call>>

(* The statistics specification *)

InitStatistics ==
    /\ \E c \in Calibrations :
         datasets = (1 :> Dataset("timeseries", 0, 0, c[1], c[2], <<>>))
    /\ \E n \in 0..MaxRecsST :
         \E f \in [1..n -> Row({0}, {NULL} \cup RawValues)] :
             records = Table(1, f)
    /\ sess = Store(datasets, records)
    /\ pc = "idle"
    /\ call = NoCall
    /\ result = NoResult

NextStatistics ==
    \/ \E pushdown \in BOOLEAN : StatisticsCall(1, pushdown)
    \/ \E pushdown \in BOOLEAN : ApiStatisticsCall(1, pushdown)

SpecStatistics == InitStatistics /\ [][NextStatistics]_vars
----------------------------------------------------------------------------
(* Timeseries.adjusttimespan *)

\* sql.func.min(Record.time) and sql.func.max(Record.time) over the rows of
\* the dataset, lines 503-504: NULL (None) over no row.
EarliestTime(recs, d) ==
    IF RecordsOf(recs, d) = {} THEN NULL
    ELSE Some(recs[FirstByTime(recs, RecordsOf(recs, d))].time)

LatestTime(recs, d) ==
    IF RecordsOf(recs, d) = {} THEN NULL
    ELSE Some(recs[FirstByTimeDesc(recs, RecordsOf(recs, d))].time)

Min(a, b) == IF b < a THEN b ELSE a
Max(a, b) == IF b > a THEN b ELSE a

\* adjusttimespan, lines 503-504, on a dataset with records.
AdjustTimespan(ds, lo, hi) ==
    [ds EXCEPT !.start = Min(Get(lo), ds.start), !.end = Max(Get(hi), ds.end)]

\* A call of adjusttimespan() on dataset d.  Over no row the aggregate is
\* None and min(None, self.start) raises TypeError before start is assigned.
\* The new span is set on the session's object; the method does not commit.
AdjustTimespanCall(d) ==
    /\ pc = "idle"
    /\ d \in DOMAIN sess.datasets
    /\ LET lo == EarliestTime(sess.records, d)
           hi == LatestTime(sess.records, d)
       IN  IF lo = NULL
           THEN /\ result' = [op |-> "adjusttimespan", d |-> d,
                              status |-> "TypeError", before |-> sess.datasets[d]]
                /\ UNCHANGED sess
           ELSE /\ result' = [op |-> "adjusttimespan", d |-> d,
                              status |-> "ok", before |-> sess.datasets[d]]
                /\ sess' = [sess EXCEPT !.datasets[d] =
                               AdjustTimespan(sess.datasets[d], lo, hi)]
    /\ UNCHANGED <<datasets, records, pc, call>>

(* The timespan specification *)

InitTimespan ==
    /\ \E start \in 0..MaxTimeTS : \E end \in start..MaxTimeTS :
         datasets = (1 :> Dataset("timeseries", start, end, 1, 0, <<>>))
    /\ \E n \in 0..MaxRecsTS :
         \E f \in [1..n -> Row(0..MaxTimeTS, {Some(0)})] :
             records = Table(1, f)
    /\ sess = Store(datasets, records)
    /\ pc = "idle"
    /\ call = NoCall
    /\ result = NoResult

NextTimespan == AdjustTimespanCall(1)

SpecTimespan == InitTimespan /\ [][NextTimespan]_vars
----------------------------------------------------------------------------
(* finddateGaps (src/dataimport/base.py); time in half days *)

\* The columns of a dataset row that finddateGaps reads.
GapDataset(site, source, valuetype, start, end) ==
    [site |-> site, source |-> source, valuetype |-> valuetype,
     start |-> start, end |-> end]

\* Lines 19-24: the datasets of the site and instrument, those ending after
\* startdate and starting before enddate when these are given.
GapCandidates(dss, siteid, instrumentid, startdate, enddate) ==
    {i \in DOMAIN dss :
        /\ dss[i].site = siteid
        /\ dss[i].source = instrumentid
        /\ startdate # NONE => dss[i].end > Get(startdate)
        /\ enddate # NONE => dss[i].start < Get(enddate)}

\* order_by('"valuetype","start"'), line 20: row i comes before row j.
GapOrder(dss, i, j) ==
    \/ dss[i].valuetype < dss[j].valuetype
    \/ /\ dss[i].valuetype = dss[j].valuetype
       /\ \/ dss[i].start < dss[j].start
          \/ dss[i].start = dss[j].start /\ i <= j

\* The rows S in the order of the query.
RECURSIVE GapSorted(_, _)
GapSorted(dss, S) ==
    IF S = {} THEN <<>>
    ELSE LET i == CHOOSE i \in S : \A j \in S : GapOrder(dss, i, j)
         IN  <<i>> \o GapSorted(dss, S \ {i})

\* Line 43: the test between two consecutive datasets.
IsGap(ds1, ds2) == ds1.end - ds2.start >= OneDay

\* Lines 41-44: the gaps between the consecutive datasets of the list.
RECURSIVE InnerGaps(_, _)
InnerGaps(dss, order) ==
    IF Len(order) < 2 THEN <<>>
    ELSE LET ds1 == dss[order[1]]
             ds2 == dss[order[2]]
         IN  (IF IsGap(ds1, ds2) THEN << <<ds1.end, ds2.start>> >> ELSE <<>>)
             \o InnerGaps(dss, Tail(order))

\* Line 28 read as answering the bounds whenever one of them is given.
NoCandidateAnyBound(startdate, enddate) ==
    IF startdate # NONE \/ enddate # NONE
    THEN Some(<< <<startdate, enddate>> >>)
    ELSE NONE

\* Line 28: the answer when no dataset is a candidate.
NoCandidate(startdate, enddate) ==
    IF startdate # NONE /\ enddate # NONE
    THEN Some(<< <<startdate, enddate>> >>)
    ELSE NONE

\* finddateGaps, lines 17-51: None (NONE) or the list of gaps.
FindDateGaps(dss, siteid, instrumentid, startdate, enddate) ==
    LET cand == GapCandidates(dss, siteid, instrumentid, startdate, enddate)
    IN  IF cand = {} THEN NoCandidate(startdate, enddate)
        ELSE LET ds1 == dss[GapSorted(dss, cand)[1]]
                 order == GapSorted(dss,
                              {i \in cand : dss[i].valuetype = ds1.valuetype})
                 first == dss[order[1]]
                 last == dss[order[Len(order)]]
                 start == OrElse(startdate, first.start)
                 end == OrElse(enddate, last.end)
             IN  Some((IF start < first.start
                       THEN << <<start, first.start>> >> ELSE <<>>)
                      \o InnerGaps(dss, order)
                      \o (IF end > last.end
                          THEN << <<last.end, end>> >> ELSE <<>>))

\* A call of finddateGaps for a site and an instrument.
FindDateGapsCall(siteid, instrumentid, startdate, enddate) ==
    /\ pc = "idle"
    /\ result' = [op |-> "finddateGaps", site |-> siteid,
                  source |-> instrumentid,
                  startdate |-> startdate, enddate |-> enddate,
                  out |-> FindDateGaps(sess.datasets, siteid, instrumentid,
                                       startdate, enddate)]
    /\ UNCHANGED <<datasets, records, sess, pc, call>>

(* The gaps specification *)

\* Site and instrument of a dataset row.
Placements == {<<1, 1>>, <<2, 1>>}

GapValueTypes == {1, 2}

InitGaps ==
    /\ \E n \in 0..MaxDsGap :
         \E f \in [1..n -> [place : Placements, valuetype : GapValueTypes,
                            start : 0..MaxTimeGap, end : 0..MaxTimeGap]] :
             /\ \A i \in 1..n : f[i].start <= f[i].end
             /\ datasets = [i \in 1..n |->
                              GapDataset(f[i].place[1], f[i].place[2],
                                         f[i].valuetype, f[i].start, f[i].end)]
    /\ records = <<>>
    /\ sess = Store(datasets, records)
    /\ pc = "idle"
    /\ call = NoCall
    /\ result = NoResult

\* The bounds of the calls: none, both, and one of the two.
GapBounds ==
    {<<NONE, NONE>>, <<Some(0), Some(MaxTimeGap)>>,
     <<Some(1), NONE>>, <<NONE, Some(MaxTimeGap - 1)>>}

NextGaps ==
    \E b \in GapBounds : FindDateGapsCall(1, 1, b[1], b[2])

SpecGaps == InitGaps /\ [][NextGaps]_vars
----------------------------------------------------------------------------
(* TransformedTimeseries: asseries, transform and iterrecords *)

\* A transformed_timeseries row: a dataset with an expression, and its rows
\* of the transforms table as the set of the ids of its sources.
Transformed(start, end, slope, offset, expression, sources) ==
    [type |-> "transformed_timeseries", start |-> start, end |-> end,
     calibration_slope |-> slope, calibration_offset |-> offset,
     comment |-> <<>>, expression |-> expression, sources |-> sources]

\* The sources relationship, lines 565-566: the source datasets in the order
\* of Timeseries.start (equal starts in row order), as a sequence of ids.
RECURSIVE SourcesByStart(_, _)
SourcesByStart(dss, S) ==
    IF S = {} THEN <<>>
    ELSE LET i == CHOOSE i \in S : \A j \in S :
                      \/ dss[i].start < dss[j].start
                      \/ dss[i].start = dss[j].start /\ i <= j
         IN  <<i>> \o SourcesByStart(dss, S \ {i})

Sources(dss, t) == SourcesByStart(dss, dss[t].sources)

\* Timeseries.asseries(start, end), lines 526-553: the calibrated values of
\* the rows that are no errors and lie in the window, in ascending time; a
\* NULL value is NaN.
AsSeriesBetween(recs, ds, d, start, end) ==
    LET rows == OrderByTime(recs,
                    {i \in RecordsOf(recs, d) :
                        /\ ~recs[i].is_error
                        /\ start # NONE => recs[i].time >= Get(start)
                        /\ end # NONE => recs[i].time <= Get(end)})
    IN  [k \in DOMAIN rows |->
            [time |-> recs[rows[k]].time,
             value |-> IF recs[rows[k]].value = NULL THEN NaN
                       ELSE Rat(Get(recs[rows[k]].value) * ds.calibration_slope
                                  + ds.calibration_offset, 1)]]

\* The expressions of the model, evaluated by the interpreter on one number.
Expressions == {"x", "x + 1"}

Evaluate(expression, x) ==
    IF x = NaN THEN NaN
    ELSE IF expression = "x + 1" THEN Rat(x[1] + x[2], x[2])
    ELSE x

\* transform followed by the calibration of the transformed dataset.
TransformCalibrated(self, x) ==
    [k \in DOMAIN x |->
        LET v == Evaluate(self.expression, x[k].value)
        IN  [time |-> x[k].time,
             value |-> IF v = NaN THEN NaN
                       ELSE Rat(v[1] * self.calibration_slope
                                  + self.calibration_offset * v[2], v[2])]]

\* transform, lines 597-600: the expression on the values of the series,
\* under the index of the series.
Transform(self, x) ==
    [k \in DOMAIN x |->
        [time |-> x[k].time, value |-> Evaluate(self.expression, x[k].value)]]

\* sort_index that keeps one entry of each timestamp.
RECURSIVE SortIndexMerging(_)
SortIndexMerging(data) ==
    IF data = <<>> THEN <<>>
    ELSE LET k == CHOOSE k \in DOMAIN data : \A j \in DOMAIN data :
                      \/ data[k].time < data[j].time
                      \/ data[k].time = data[j].time /\ k <= j
         IN  <<data[k]>> \o
             SortIndexMerging(SelectSeq(data, LAMBDA e : e.time # data[k].time))

\* data.sort_index(), line 590: the entries in ascending time, entries of
\* equal time in the order of the concatenation.
RECURSIVE SortIndex(_)
SortIndex(data) ==
    IF data = <<>> THEN <<>>
    ELSE LET k == CHOOSE k \in DOMAIN data : \A j \in DOMAIN data :
                      \/ data[k].time < data[j].time
                      \/ data[k].time = data[j].time /\ k <= j
         IN  <<data[k]>> \o
             SortIndex([j \in 1..(Len(data) - 1) |->
                           IF j < k THEN data[j] ELSE data[j + 1]])

\* Lines 586-589: the transformed series of the sources, appended one after
\* the other.
RECURSIVE Appended(_, _, _, _, _, _)
Appended(recs, dss, self, srcs, start, end) ==
    IF srcs = <<>> THEN <<>>
    ELSE Transform(self, AsSeriesBetween(recs, dss[Head(srcs)], Head(srcs),
                                         start, end))
         \o Appended(recs, dss, self, Tail(srcs), start, end)

\* TransformedTimeseries.asseries, lines 578-591, for an expression that is
\* no plugin.
TransformedAsSeries(recs, dss, t, start, end) ==
    SortIndex(Appended(recs, dss, dss[t], Sources(dss, t), start, end))

TransformedAsSeriesCall(t, start, end) ==
    /\ pc = "idle"
    /\ t \in DOMAIN sess.datasets
    /\ sess.datasets[t].type = "transformed_timeseries"
    /\ result' = [op |-> "asseries", d |-> t, start |-> start, end |-> end,
                  out |-> TransformedAsSeries(sess.records, sess.datasets, t,
                                              start, end)]
    /\ UNCHANGED <<datasets, records, sess, pc, call>>

\* The query of iterrecords, lines 603-611: the rows of the sources in the
\* window, without the errors unless asked for, in ascending time.
SourceRecords(recs, dss, t, witherrors, start, end) ==
    OrderByTime(recs,
        {i \in DOMAIN recs :
            /\ recs[i].ds \in dss[t].sources
            /\ start # NONE => recs[i].time >= Get(start)
            /\ end # NONE => recs[i].time <= Get(end)
            /\ witherrors \/ ~recs[i].is_error})

\* TransformedTimeseries.iterrecords, lines 602-618.  For the first row the
\* generator calls self.transform(r.calibrated) with a float or None, and
\* transform calls x.to_numpy() on it: AttributeError before a record is
\* yielded.  Over no row the generator ends without a record.
TransformedIterRecords(recs, dss, t, witherrors, start, end) ==
    IF SourceRecords(recs, dss, t, witherrors, start, end) = <<>>
    THEN [status |-> "ok", out |-> <<>>]
    ELSE [status |-> "AttributeError", out |-> <<>>]

TransformedIterRecordsCall(t, witherrors, start, end) ==
    /\ pc = "idle"
    /\ t \in DOMAIN sess.datasets
    /\ sess.datasets[t].type = "transformed_timeseries"
    /\ LET r == TransformedIterRecords(sess.records, sess.datasets, t,
                                       witherrors, start, end)
       IN  result' = [op |-> "iterrecords", d |-> t, witherrors |-> witherrors,
                      start |-> start, end |-> end,
                      status |-> r.status, out |-> r.out]
    /\ UNCHANGED <<datasets, records, sess, pc, call>>

(* The transformation specification *)

\* The rows of the sources: a value, a missing value, an error.
SourceRows ==
    [time : 0..MaxTimeTR, value : {Some(1)}, is_error : {FALSE}]
    \cup [time : 0..MaxTimeTR, value : {NULL}, is_error : {FALSE}]
    \cup [time : 0..MaxTimeTR, value : {Some(1)}, is_error : {TRUE}]

\* The sources 1..n start in the reverse order of their ids; the transformed
\* dataset n + 1 has a calibration of its own.
InitTransform ==
    /\ \E n \in 0..MaxSrcTR : \E c \in Calibrations :
       \E expression \in Expressions :
         /\ datasets =
              [i \in 1..(n + 1) |->
                  IF i <= n
                  THEN Dataset("timeseries", n - i,
                               MaxTimeTR, c[1], c[2], <<>>)
                  ELSE Transformed(0, MaxTimeTR, 2, 1, expression, 1..n)]
         /\ \E m \in 0..MaxRecsTR :
              \E f \in [1..m -> SourceRows] : \E own \in [1..m -> 1..n] :
                  records = [i \in 1..m |->
                                Record(i, own[i], f[i].time, f[i].value,
                                       f[i].is_error)]
    /\ sess = Store(datasets, records)
    /\ pc = "idle"
    /\ call = NoCall
    /\ result = NoResult

TransformWindows == {<<NONE, NONE>>, <<Some(1), Some(MaxTimeTR)>>}

NextTransform ==
    \/ \E w \in TransformWindows :
         TransformedAsSeriesCall(Len(sess.datasets), w[1], w[2])
    \/ \E w \in TransformWindows :
         TransformedIterRecordsCall(Len(sess.datasets), FALSE, w[1], w[2])

SpecTransform == InitTransform /\ [][NextTransform]_vars
----------------------------------------------------------------------------
(* TransformedTimeseries.updatetime *)

\* updatetime taking the span of the first source only.
UpdateTimeFirstSource(dss, self, srcs) ==
    [self EXCEPT !.start = dss[srcs[1]].start, !.end = dss[srcs[1]].end]

\* updatetime, lines 594-595, with at least one source.
UpdateTime(dss, self, srcs) ==
    [self EXCEPT
        !.start = MinOf({dss[srcs[k]].start : k \in DOMAIN srcs}),
        !.end = MaxOf({dss[srcs[k]].end : k \in DOMAIN srcs})]

\* A call of updatetime() on the transformed dataset t.  Without sources
\* min() of the empty generator raises ValueError before start is assigned.
\* The new span is set on the session's object; the method does not commit.
UpdateTimeCall(t) ==
    /\ pc = "idle"
    /\ t \in DOMAIN sess.datasets
    /\ sess.datasets[t].type = "transformed_timeseries"
    /\ LET srcs == Sources(sess.datasets, t)
       IN  IF srcs = <<>>
           THEN /\ result' = [op |-> "updatetime", d |-> t,
                              status |-> "ValueError",
                              before |-> sess.datasets[t]]
                /\ UNCHANGED sess
           ELSE /\ result' = [op |-> "updatetime", d |-> t, status |-> "ok",
                              before |-> sess.datasets[t]]
                /\ sess' = [sess EXCEPT !.datasets[t] =
                               UpdateTime(sess.datasets, sess.datasets[t], srcs)]
    /\ UNCHANGED <<datasets, records, pc, call>>

(* The updatetime specification *)

\* Timeseries 1..n with their spans, and the transformed dataset n + 1 with
\* some of them as its sources.
InitUpdateTime ==
    /\ \E n \in 0..MaxSrcUT :
         \E f \in [1..n -> [start : 0..MaxTimeUT, end : 0..MaxTimeUT]] :
         \E sources \in SUBSET (1..n) :
             /\ \A i \in 1..n : f[i].start <= f[i].end
             /\ datasets =
                  [i \in 1..(n + 1) |->
                      IF i <= n
                      THEN Dataset("timeseries", f[i].start, f[i].end, 1, 0, <<>>)
                      ELSE Transformed(1, 1, 1, 0, "x", sources)]
    /\ records = <<>>
    /\ sess = Store(datasets, records)
    /\ pc = "idle"
    /\ call = NoCall
    /\ result = NoResult

NextUpdateTime == UpdateTimeCall(Len(sess.datasets))

SpecUpdateTime == InitUpdateTime /\ [][NextUpdateTime]_vars
----------------------------------------------------------------------------
(* TransformedTimeseries.suitablesources *)

\* A dataset row with its site and value type.
AtSite(ds, site, valuetype) ==
    [type |-> ds.type, start |-> ds.start, end |-> ds.end,
     calibration_slope |-> ds.calibration_slope,
     calibration_offset |-> ds.calibration_offset, comment |-> ds.comment,
     site |-> site, valuetype |-> valuetype]

\* A transformed dataset row with its site and value type.
TransformedAtSite(ds, site, valuetype) ==
    [type |-> ds.type, start |-> ds.start, end |-> ds.end,
     calibration_slope |-> ds.calibration_slope,
     calibration_offset |-> ds.calibration_offset, comment |-> ds.comment,
     expression |-> ds.expression, sources |-> ds.sources,
     site |-> site, valuetype |-> valuetype]

\* suitablesources without the filter of the value type.
SuitableSourcesAnyType(dss, t) ==
    {i \in DOMAIN dss :
        /\ dss[i].type = "timeseries"
        /\ dss[i].site = dss[t].site
        /\ i \notin dss[t].sources}

\* suitablesources, lines 620-629: the Timeseries of the site of the
\* transformed dataset that are no sources yet, and with sources only those
\* of the value type of self.sources[0].
SuitableSources(dss, t) ==
    {i \in DOMAIN dss :
        /\ dss[i].type = "timeseries"
        /\ dss[i].site = dss[t].site
        /\ i \notin dss[t].sources
        /\ dss[t].sources # {} =>
             dss[i].valuetype = dss[Sources(dss, t)[1]].valuetype}

SuitableSourcesCall(t) ==
    /\ pc = "idle"
    /\ t \in DOMAIN sess.datasets
    /\ sess.datasets[t].type = "transformed_timeseries"
    /\ result' = [op |-> "suitablesources", d |-> t,
                  out |-> SuitableSources(sess.datasets, t)]
    /\ UNCHANGED <<datasets, records, sess, pc, call>>

\* The caller appends one of the suitable sources to the sources of t and
\* commits; call keeps the source chosen first.
AddSource(t, s) ==
    /\ pc = "idle"
    /\ t \in DOMAIN sess.datasets
    /\ sess.datasets[t].type = "transformed_timeseries"
    /\ s \in SuitableSources(sess.datasets, t)
    /\ sess' = [sess EXCEPT !.datasets[t].sources = @ \cup {s}]
    /\ datasets' = sess'.datasets
    /\ call' = [op |-> "sources",
                first |-> IF call.first = NONE THEN Some(s) ELSE call.first]
    /\ result' = [op |-> "addsource", d |-> t, source |-> s]
    /\ UNCHANGED <<records, pc>>

(* The sources specification *)

SiteIds == {1, 2}
ValueTypeIds == {1, 2}

\* Timeseries 1..n at their sites, and the transformed dataset n + 1 without
\* sources.
InitSources ==
    /\ \E n \in 0..MaxSrcSS :
         \E f \in [1..n -> [site : SiteIds, valuetype : ValueTypeIds]] :
         \E site \in SiteIds : \E valuetype \in ValueTypeIds :
             datasets =
                 [i \in 1..(n + 1) |->
                     IF i <= n
                     THEN AtSite(Dataset("timeseries", n - i, MaxSrcSS, 1, 0, <<>>),
                                 f[i].site, f[i].valuetype)
                     ELSE TransformedAtSite(Transformed(0, 0, 1, 0, "x", {}),
                                            site, valuetype)]
    /\ records = <<>>
    /\ sess = Store(datasets, records)
    /\ pc = "idle"
    /\ call = [op |-> "sources", first |-> NONE]
    /\ result = NoResult

NextSources ==
    \/ SuitableSourcesCall(Len(sess.datasets))
    \/ \E s \in DOMAIN sess.datasets : AddSource(Len(sess.datasets), s)

SpecSources == InitSources /\ [][NextSources]_vars
----------------------------------------------------------------------------
(* Dataset.copy on the dataset variants *)

\* copy, lines 214-232, on any variant: cls(...) is given the columns of
\* Dataset only, so a new TransformedTimeseries has no expression (None) and
\* no rows in the transforms table.
CopyDataset(ds) ==
    IF ds.type = "transformed_timeseries"
    THEN Transformed(ds.start, ds.end, ds.calibration_slope,
                     ds.calibration_offset, NULL, {})
    ELSE Copy(ds)

\* A call of copy(id) on dataset d with a new id; the new object enters the
\* session through its relationships and is not committed.
CopyCall(d) ==
    /\ pc = "idle"
    /\ d \in DOMAIN sess.datasets
    /\ NewId(sess.datasets) <= MaxDsCP
    /\ LET new == NewId(sess.datasets)
       IN  /\ sess' = [sess EXCEPT !.datasets =
                          [k \in DOMAIN sess.datasets \cup {new} |->
                              IF k = new THEN CopyDataset(sess.datasets[d])
                              ELSE sess.datasets[k]]]
           /\ result' = [op |-> "copy", d |-> d, new |-> new, before |-> sess]
    /\ UNCHANGED <<datasets, records, pc, call>>

(* The copy specification *)

\* Dataset 1 is a Timeseries with records, or a TransformedTimeseries with an
\* expression over the Timeseries 1 (then dataset 2).
InitCopy ==
    /\ \E c \in Calibrations :
       \E start \in 0..MaxTimeCP : \E end \in start..MaxTimeCP :
       \E transformed \in BOOLEAN : \E expression \in Expressions :
         datasets =
            IF transformed
            THEN <<Dataset("timeseries", start, end, c[1], c[2], <<>>),
                   Transformed(start, end, c[1], c[2], expression, {1})>>
            ELSE <<Dataset("timeseries", start, end, c[1], c[2], <<>>)>>
    /\ \E n \in 0..MaxRecsCP :
         \E f \in [1..n -> Row(0..MaxTimeCP, RawValues)] :
             records = Table(1, f)
    /\ sess = Store(datasets, records)
    /\ pc = "idle"
    /\ call = NoCall
    /\ result = NoResult

NextCopy == \E d \in 1..MaxDsCP : CopyCall(d)

SpecCopy == InitCopy /\ [][NextCopy]_vars
----------------------------------------------------------------------------
(* removedataset *)

\* The sequences without repetition over the set S.
RECURSIVE Lists(_)
Lists(S) ==
    {<<>>} \cup UNION {{<<x>> \o l : l \in Lists(S \ {x})} : x \in S}

\* A row of the transforms table (lines 345-350) names dataset d as a source.
IsSource(dss, d) ==
    \E t \in DOMAIN dss :
        dss[t].type = "transformed_timeseries" /\ d \in dss[t].sources

\* removedataset, lines 260-261: the session and the datasets of the ids.
\* enforced tells whether the store checks the foreign keys of the
\* transforms table (PostgreSQL does, SQLite does not unless asked to).
RemoveBegin(args, enforced) ==
    /\ pc = "idle"
    /\ args # <<>>
    /\ \A k \in DOMAIN args : args[k] \in DOMAIN datasets
    /\ call' = [op |-> "removedataset", args |-> args, todo |-> args,
                enforced |-> enforced, before |-> Store(datasets, records)]
    /\ sess' = Store(datasets, records)
    /\ pc' = "records"
    /\ result' = [op |-> "removedataset", status |-> "running"]
    /\ UNCHANGED <<datasets, records>>

\* The deletion of the records without the restriction to the dataset.
RemoveRecordsOfAll ==
    /\ pc = "records"
    /\ records' = IF datasets[Head(call.todo)].type = "timeseries"
                  THEN <<>> ELSE records
    /\ sess' = Store(datasets, records')
    /\ pc' = "row"
    /\ UNCHANGED <<datasets, call, result>>

\* Lines 263-268: the records of a Timeseries are deleted and the deletion
\* is committed.
RemoveRecords ==
    /\ pc = "records"
    /\ LET d == Head(call.todo)
       IN  records' = IF datasets[d].type = "timeseries"
                      THEN SelectSeq(records, LAMBDA r : r.ds # d)
                      ELSE records
    /\ sess' = Store(datasets, records')
    /\ pc' = "row"
    /\ UNCHANGED <<datasets, call, result>>

\* Lines 269-270: session.delete(ds) and the commit.  The rows of the
\* transforms table that name ds as a source are not deleted with it: a
\* store that checks the foreign key refuses the commit (IntegrityError
\* leaves removedataset), another store deletes the dataset row.
RemoveRow ==
    /\ pc = "row"
    /\ LET d == Head(call.todo)
       IN  IF call.enforced /\ IsSource(datasets, d)
           THEN /\ result' = [op |-> "removedataset",
                              status |-> "IntegrityError"]
                /\ pc' = "idle"
                /\ UNCHANGED <<datasets, sess, call>>
           ELSE /\ datasets' = [k \in DOMAIN datasets \ {d} |-> datasets[k]]
                /\ sess' = Store(datasets', records)
                /\ call' = [call EXCEPT !.todo = Tail(@)]
                /\ IF Tail(call.todo) = <<>>
                   THEN /\ pc' = "idle"
                        /\ result' = [op |-> "removedataset", status |-> "ok"]
                   ELSE /\ pc' = "records"
                        /\ UNCHANGED result
    /\ UNCHANGED records

(* The removal specification *)

\* Timeseries 1..n with records, and possibly the transformed dataset n + 1
\* over some of them.
InitRemove ==
    /\ \E n \in 1..MaxDsRM : \E transformed \in BOOLEAN :
       \E sources \in SUBSET (1..n) :
         /\ datasets =
              [i \in 1..(IF transformed THEN n + 1 ELSE n) |->
                  IF i <= n THEN Dataset("timeseries", 0, 0, 1, 0, <<>>)
                  ELSE Transformed(0, 0, 1, 0, "x", sources)]
         /\ ~transformed => sources = {}
         /\ \E m \in 0..MaxRecsRM : \E own \in [1..m -> 1..n] :
              records = [i \in 1..m |-> Record(i, own[i], 0, Some(0), FALSE)]
    /\ sess = Store(datasets, records)
    /\ pc = "idle"
    /\ call = NoCall
    /\ result = NoResult

NextRemove ==
    \/ \E args \in Lists(DOMAIN datasets) : \E enforced \in BOOLEAN :
         RemoveBegin(args, enforced)
    \/ RemoveRecords
    \/ RemoveRow

SpecRemove == InitRemove /\ [][NextRemove]_vars
----------------------------------------------------------------------------
(* ValueType.inrange, Timeseries.maxrecordid and Timeseries.addrecord *)

\* The valuetype of a dataset with its bounds, each NULL or a number.
ValueType(minvalue, maxvalue) == [minvalue |-> minvalue, maxvalue |-> maxvalue]

\* A Timeseries row with its valuetype.
Measuring(ds, valuetype) ==
    [type |-> ds.type, start |-> ds.start, end |-> ds.end,
     calibration_slope |-> ds.calibration_slope,
     calibration_offset |-> ds.calibration_offset, comment |-> ds.comment,
     valuetype |-> valuetype]

\* inrange of a value type that lets every value pass.
InRangeAlways(vt, value) == TRUE

\* ValueType.inrange, lines 89-91.
InRange(vt, value) ==
    /\ vt.minvalue = NULL \/ value >= Get(vt.minvalue)
    /\ vt.maxvalue = NULL \/ value <= Get(vt.maxvalue)

\* maxrecordid, lines 456-468: the id at offset size - 1 of the ids in
\* ascending order, the highest id.  Without records the offset is -1 and
\* the query gives no id (None) or is refused by the store.
MaxRecordId(recs, d) ==
    IF RecordsOf(recs, d) = {} THEN NONE
    ELSE Some(MaxOf({recs[i].id : i \in RecordsOf(recs, d)}))

\* addrecord, lines 477-496: the outcome and the new record.  Id is NONE
\* (None) or a number, and 0 counts as no Id (Id or ...).  Without an Id and
\* without records, line 481 fails, in Python (None + 1) or in the store
\* (negative OFFSET), before the two checks.
AddRecord(recs, ds, d, Id, value, time) ==
    LET given == Id # NONE /\ Get(Id) # 0
        maxid == MaxRecordId(recs, d)
        id == IF given THEN Get(Id)
              ELSE IF maxid = NONE THEN 0 ELSE Get(maxid) + 1
    IN  IF ~given /\ maxid = NONE THEN [status |-> "NoMaxId"]
        ELSE IF ~InRange(ds.valuetype, value) THEN [status |-> "OutOfRange"]
        ELSE IF ~(ds.start <= time /\ time <= ds.end)
        THEN [status |-> "OutOfTimespan"]
        ELSE [status |-> "ok", record |-> Record(id, d, time, Some(value), FALSE)]

\* A call of addrecord on dataset d.  The new record is added to the session;
\* a record with the key (id, dataset) of another one is refused by the
\* flush of the session (IntegrityError).  NoMaxId is TypeError or the error
\* of the store, as the store decides.
AddRecordCall(d, Id, value, time) ==
    /\ pc = "idle"
    /\ d \in DOMAIN sess.datasets
    /\ sess.datasets[d].type = "timeseries"
    /\ Len(sess.records) < MaxRecsAR
    /\ LET r == AddRecord(sess.records, sess.datasets[d], d, Id, value, time)
           inputs == [op |-> "addrecord", d |-> d, Id |-> Id, value |-> value,
                      time |-> time, before |-> sess]
       IN  IF r.status = "NoMaxId"
           THEN /\ \E e \in {"TypeError", "ProgrammingError"} :
                     result' = inputs @@ [status |-> e]
                /\ UNCHANGED sess
           ELSE IF r.status # "ok"
           THEN /\ result' = inputs @@ [status |-> r.status]
                /\ UNCHANGED sess
           ELSE IF \E i \in RecordsOf(sess.records, d) :
                       sess.records[i].id = r.record.id
           THEN /\ result' = inputs @@ [status |-> "IntegrityError"]
                /\ UNCHANGED sess
           ELSE /\ result' = inputs @@ [status |-> "ok", id |-> r.record.id]
                /\ sess' = [sess EXCEPT !.records = Append(@, r.record)]
    /\ UNCHANGED <<datasets, records, pc, call>>

(* The addrecord specification *)

MinValues == {NULL, Some(1)}
MaxValues == {NULL, Some(2)}

InitAddRecord ==
    /\ \E start \in 0..MaxTimeAR : \E end \in start..MaxTimeAR :
       \E minvalue \in MinValues : \E maxvalue \in MaxValues :
         datasets = <<Measuring(Dataset("timeseries", start, end, 1, 0, <<>>),
                                ValueType(minvalue, maxvalue))>>
    /\ \/ records = <<>>
       \/ \E id \in 1..2 : \E time \in 0..MaxTimeAR :
            records = <<Record(id, 1, time, Some(1), FALSE)>>
    /\ sess = Store(datasets, records)
    /\ pc = "idle"
    /\ call = NoCall
    /\ result = NoResult

NextAddRecord ==
    \E Id \in {NONE, Some(0), Some(2)} :
    \E value \in 0..MaxValueAR : \E time \in 0..MaxTimeAR :
        AddRecordCall(1, Id, value, time)

SpecAddRecord == InitAddRecord /\ [][NextAddRecord]_vars
----------------------------------------------------------------------------
(* Record.calibrated, Timeseries.calibratevalue and Timeseries.iterrecords *)

\* calibrated testing the value for truth, so that 0.0 counts as missing.
CalibratedIfTrue(ds, value) ==
    IF value # NULL /\ Get(value) # 0
    THEN Some(ds.calibration_slope * Get(value) + ds.calibration_offset)
    ELSE NULL

\* Record.calibrated, lines 321-327, of a record of dataset ds.
Calibrated(ds, value) ==
    IF value # NULL
    THEN Some(ds.calibration_slope * Get(value) + ds.calibration_offset)
    ELSE NULL

\* calibratevalue, lines 448-454: None * slope raises TypeError, which the
\* method answers with None.
CalibrateValue(ds, value) ==
    IF value = NULL THEN NULL
    ELSE Some(Get(value) * ds.calibration_slope + ds.calibration_offset)

\* Timeseries.iterrecords, lines 509-524: the records of the window in
\* ascending time, without the errors unless asked for, as MemRecords with
\* the calibrated value and the raw value.
IterRecords(recs, ds, d, witherrors, start, end) ==
    LET rows == OrderByTime(recs,
                    {i \in RecordsOf(recs, d) :
                        /\ start # NONE => recs[i].time >= Get(start)
                        /\ end # NONE => recs[i].time <= Get(end)
                        /\ witherrors \/ ~recs[i].is_error})
    IN  [k \in DOMAIN rows |->
            [id |-> recs[rows[k]].id, dataset |-> d,
             time |-> recs[rows[k]].time,
             value |-> Calibrated(ds, recs[rows[k]].value),
             rawvalue |-> recs[rows[k]].value,
             is_error |-> recs[rows[k]].is_error]]

\* Reading record.calibrated of the record in row i.
CalibratedCall(i) ==
    /\ pc = "idle"
    /\ i \in DOMAIN sess.records
    /\ result' = [op |-> "calibrated", row |-> i,
                  out |-> Calibrated(sess.datasets[sess.records[i].ds],
                                     sess.records[i].value)]
    /\ UNCHANGED <<datasets, records, sess, pc, call>>

CalibrateValueCall(d, value) ==
    /\ pc = "idle"
    /\ d \in DOMAIN sess.datasets
    /\ result' = [op |-> "calibratevalue", d |-> d, value |-> value,
                  out |-> CalibrateValue(sess.datasets[d], value)]
    /\ UNCHANGED <<datasets, records, sess, pc, call>>

IterRecordsCall(d, witherrors, start, end) ==
    /\ pc = "idle"
    /\ d \in DOMAIN sess.datasets
    /\ result' = [op |-> "iterrecords", d |-> d, witherrors |-> witherrors,
                  start |-> start, end |-> end,
                  out |-> IterRecords(sess.records, sess.datasets[d], d,
                                      witherrors, start, end)]
    /\ UNCHANGED <<datasets, records, sess, pc, call>>

(* The calibration specification *)

\* (slope, offset): no slope, the default, and two others.
CalibrationPairs == {<<0, 1>>, <<1, 0>>, <<2, 1>>, <<-1, 0>>}

InitCalibration ==
    /\ \E c \in CalibrationPairs :
         datasets = <<Dataset("timeseries", 0, MaxTimeCA, c[1], c[2], <<>>)>>
    /\ \E n \in 0..MaxRecsCA :
         \E f \in [1..n -> Row(0..MaxTimeCA, {NULL} \cup RawValues)] :
             records = Table(1, f)
    /\ sess = Store(datasets, records)
    /\ pc = "idle"
    /\ call = NoCall
    /\ result = NoResult

NextCalibration ==
    \/ \E i \in 1..MaxRecsCA : CalibratedCall(i)
    \/ \E value \in {NULL} \cup RawValues : CalibrateValueCall(1, value)
    \/ \E witherrors \in BOOLEAN : IterRecordsCall(1, witherrors, NONE, NONE)

SpecCalibration == InitCalibration /\ [][NextCalibration]_vars
----------------------------------------------------------------------------
(* Concurrent requests of DatasetAPI.addrecord *)

\* The two requests; in this specification pc, call and result hold one
\* entry per request, and every request has a session of its own.
Requests == {1, 2}

\* DatasetAPI.addrecord, lines 221-226, up to the return of ds.addrecord:
\* the request reads the highest record id of the committed store and keeps
\* the new record in its session.  No lock is taken.
ApiAddRecordBegin(p, d, value, time) ==
    /\ pc[p] = "idle"
    /\ d \in DOMAIN datasets
    /\ LET r == AddRecord(records, datasets[d], d, NONE, value, time)
       IN  IF r.status = "ok"
           THEN /\ pc' = [pc EXCEPT ![p] = "pending"]
                /\ call' = [call EXCEPT ![p] = [op |-> "addrecord", d |-> d,
                                                record |-> r.record]]
                /\ UNCHANGED result
           ELSE /\ pc' = [pc EXCEPT ![p] = "done"]
                /\ call' = [call EXCEPT ![p] = [op |-> "addrecord", d |-> d]]
                /\ result' = [result EXCEPT ![p] =
                                 [op |-> "addrecord", status |-> r.status]]
    /\ UNCHANGED <<datasets, records, sess>>

\* The end of the session scope of the request: the INSERT and the commit.
\* The store refuses a second row with the key (id, dataset), lines 300-302.
ApiAddRecordCommit(p) ==
    /\ pc[p] = "pending"
    /\ LET rec == call[p].record
       IN  IF \E i \in DOMAIN records :
                  records[i].id = rec.id /\ records[i].ds = rec.ds
           THEN /\ result' = [result EXCEPT ![p] =
                                 [op |-> "addrecord", status |-> "IntegrityError",
                                  id |-> rec.id]]
                /\ UNCHANGED <<records, sess>>
           ELSE /\ result' = [result EXCEPT ![p] =
                                 [op |-> "addrecord", status |-> "ok",
                                  id |-> rec.id]]
                /\ records' = Append(records, rec)
                /\ sess' = Store(datasets, records')
    /\ pc' = [pc EXCEPT ![p] = "done"]
    /\ UNCHANGED <<datasets, call>>

(* The specification of the concurrent requests *)

\* Two Timeseries, the records 1..n spread over them.
InitConcurrent ==
    /\ datasets = [d \in 1..2 |->
                      Measuring(Dataset("timeseries", 0, MaxTimeCC, 1, 0, <<>>),
                                ValueType(NULL, NULL))]
    /\ \E n \in 0..MaxRecsCC :
         \E own \in [1..n -> 1..2] : \E t \in [1..n -> 0..MaxTimeCC] :
             records = [i \in 1..n |-> Record(i, own[i], t[i], Some(0), FALSE)]
    /\ sess = Store(datasets, records)
    /\ pc = [p \in Requests |-> "idle"]
    /\ call = [p \in Requests |-> NoCall]
    /\ result = [p \in Requests |-> NoResult]

NextConcurrent ==
    \/ \E p \in Requests, d \in 1..2, time \in 0..MaxTimeCC :
         ApiAddRecordBegin(p, d, 1, time)
    \/ \E p \in Requests : ApiAddRecordCommit(p)

SpecConcurrent == InitConcurrent /\ [][NextConcurrent]_vars
----------------------------------------------------------------------------
(* The life of datasets: DatasetAPI.new, copy, addrecord, adjusttimespan,
   split and updatetime in any order *)

\* DatasetAPI.new, lines 138-199, for a request that gives start and end:
\* a Timeseries with the two dates as they were parsed, each on its own
\* (lines 180-184), the default calibration, and the commit of line 192.
\* Nothing compares start and end.
NewCall(start, end) ==
    /\ pc = "idle"
    /\ NewId(sess.datasets) <= MaxDsLC
    /\ LET new == NewId(sess.datasets)
           ds == Measuring(Dataset("timeseries", start, end, 1, 0, <<>>),
                           ValueType(NULL, NULL))
       IN  /\ sess' = [sess EXCEPT !.datasets =
                          [k \in DOMAIN sess.datasets \cup {new} |->
                              IF k = new THEN ds ELSE sess.datasets[k]]]
           /\ result' = [op |-> "new", new |-> new, status |-> "ok"]
    /\ datasets' = sess'.datasets
    /\ records' = sess'.records
    /\ UNCHANGED <<pc, call>>

\* split(time), lines 357-381, as one step: the two queries, the check, the
\* copy with the two time bounds and the comment notes, the reassignment of
\* the records from next.time on, and the commit.
SplitCall(d, time) ==
    /\ pc = "idle"
    /\ d \in DOMAIN sess.datasets
    /\ sess.datasets[d].type = "timeseries"
    /\ NewId(sess.datasets) <= MaxDsLC
    /\ LET next == SplitNext(sess.records, d, time)
           last == SplitLast(sess.records, d, time)
       IN  IF ~SplitAccepted(next, last)
           THEN /\ result' = [op |-> "split", d |-> d, time |-> time,
                              status |-> "InvalidSplitPoint"]
                /\ UNCHANGED <<datasets, records, sess>>
           ELSE LET new == NewId(sess.datasets)
                    self == sess.datasets[d]
                    noted == [self EXCEPT
                                !.comment = Append(@, <<"splitted at", time>>)]
                    self2 == [noted EXCEPT
                                !.comment = Append(@, <<"other part", new>>),
                                !.end = sess.records[last].time]
                    dsnew2 == [Copy(noted) EXCEPT
                                !.comment = Append(@, <<"other part", d>>),
                                !.start = sess.records[next].time]
                    moved == SplitRecords(sess.records, d,
                                          sess.records[next].time)
                IN  /\ sess' =
                          [datasets |->
                              [k \in DOMAIN sess.datasets \cup {new} |->
                                  IF k = new THEN dsnew2
                                  ELSE IF k = d THEN self2
                                  ELSE sess.datasets[k]],
                           records |->
                              [i \in DOMAIN sess.records |->
                                  IF i \in moved
                                  THEN [sess.records[i] EXCEPT !.ds = new]
                                  ELSE sess.records[i]]]
                    /\ datasets' = sess'.datasets
                    /\ records' = sess'.records
                    /\ result' = [op |-> "split", d |-> d, time |-> time,
                                  new |-> new, status |-> "ok"]
    /\ UNCHANGED <<pc, call>>

(* The lifecycle specification *)

\* Rows in ascending time, as an import writes them.
LifecycleRows(n) ==
    {f \in [1..n -> Row(0..MaxTimeLC, SplitValues)] :
        /\ \A i \in 1..n : ~f[i].is_error
        /\ \A i \in 1..n : \A j \in 1..n : i < j => f[i].time <= f[j].time}

\* Dataset 1 is a Timeseries that spans all times and holds all records;
\* dataset 2 is a TransformedTimeseries over it.
InitLifecycle ==
    /\ datasets =
          <<Measuring(Dataset("timeseries", 0, MaxTimeLC, 1, 0, <<>>),
                      ValueType(NULL, NULL)),
            Transformed(0, MaxTimeLC, 1, 0, "x", {1})>>
    /\ \E n \in 0..MaxRecsLC : \E f \in LifecycleRows(n) :
         records = Table(1, f)
    /\ sess = Store(datasets, records)
    /\ pc = "idle"
    /\ call = NoCall
    /\ result = NoResult

NextLifecycle ==
    \/ \E start \in 0..MaxTimeLC, end \in 0..MaxTimeLC : NewCall(start, end)
    \/ \E d \in 1..MaxDsLC : CopyCall(d)
    \/ \E d \in 1..MaxDsLC, Id \in {NONE, Some(2)}, time \in 0..MaxTimeLC :
         AddRecordCall(d, Id, 1, time)
    \/ \E d \in 1..MaxDsLC : AdjustTimespanCall(d)
    \/ \E d \in 1..MaxDsLC, time \in 0..MaxTimeLC : SplitCall(d, time)
    \/ \E t \in 1..MaxDsLC : UpdateTimeCall(t)

SpecLifecycle == InitLifecycle /\ [][NextLifecycle]_vars
----------------------------------------------------------------------------
(* DatasetGroup *)

\* DatasetGroup(datasetids, start, end), lines 641-644.
DatasetGroup(datasetids, start, end) ==
    [datasetids |-> datasetids, start |-> start, end |-> end]

\* DatasetGroup.datasets, lines 646-647: the datasets of the group in the
\* order of Dataset.start (equal starts in row order), as a sequence of ids.
GroupDatasets(dss, group) ==
    SourcesByStart(dss, group.datasetids \cap DOMAIN dss)

\* DatasetGroup.asseries, lines 649-655: the series of the datasets over the
\* window of the group, appended one after the other, then sort_index().
RECURSIVE GroupAppended(_, _, _, _)
GroupAppended(recs, dss, group, order) ==
    IF order = <<>> THEN <<>>
    ELSE AsSeriesBetween(recs, dss[Head(order)], Head(order),
                         group.start, group.end)
         \o GroupAppended(recs, dss, group, Tail(order))

GroupAsSeries(recs, dss, group) ==
    SortIndex(GroupAppended(recs, dss, group, GroupDatasets(dss, group)))

\* DatasetGroup.iterrecords, lines 657-661: the records of one dataset after
\* those of the other, each dataset's records in ascending time;
\* ds.iterrecords is called without start and end.
RECURSIVE GroupIterRecords(_, _, _, _, _)
GroupIterRecords(recs, dss, group, witherrors, order) ==
    IF order = <<>> THEN <<>>
    ELSE IterRecords(recs, dss[Head(order)], Head(order), witherrors, NONE, NONE)
         \o GroupIterRecords(recs, dss, group, witherrors, Tail(order))

GroupAsSeriesCall(group) ==
    /\ pc = "idle"
    /\ result' = [op |-> "group.asseries", group |-> group,
                  out |-> GroupAsSeries(sess.records, sess.datasets, group)]
    /\ UNCHANGED <<datasets, records, sess, pc, call>>

GroupIterRecordsCall(group, witherrors) ==
    /\ pc = "idle"
    /\ result' = [op |-> "group.iterrecords", group |-> group,
                  witherrors |-> witherrors,
                  out |-> GroupIterRecords(sess.records, sess.datasets, group,
                              witherrors,
                              GroupDatasets(sess.datasets, group))]
    /\ UNCHANGED <<datasets, records, sess, pc, call>>

(* The group specification *)

\* Two Timeseries with their spans, which may overlap, and records that lie
\* within the span of their dataset, in any row order.
InitGroup ==
    /\ \E f \in [1..2 -> [start : 0..MaxTimeGR, end : 0..MaxTimeGR]] :
         /\ \A d \in 1..2 : f[d].start <= f[d].end
         /\ datasets = [d \in 1..2 |->
                           Dataset("timeseries", f[d].start, f[d].end, 1, 0, <<>>)]
    /\ \E n \in 0..MaxRecsGR :
         \E own \in [1..n -> 1..2] :
         \E f \in [1..n -> Row(0..MaxTimeGR, {Some(1)})] :
             /\ \A i \in 1..n : /\ datasets[own[i]].start <= f[i].time
                                /\ f[i].time <= datasets[own[i]].end
             /\ records = [i \in 1..n |->
                              Record(i, own[i], f[i].time, f[i].value,
                                     f[i].is_error)]
    /\ sess = Store(datasets, records)
    /\ pc = "idle"
    /\ call = NoCall
    /\ result = NoResult

\* The windows of a group: none, or from time 1 on, or up to time 1.
GroupWindows == {<<NONE, NONE>>, <<Some(1), NONE>>, <<NONE, Some(1)>>}

NextGroup ==
    \/ \E w \in GroupWindows :
         GroupAsSeriesCall(DatasetGroup({1, 2}, w[1], w[2]))
    \/ \E w \in GroupWindows : \E witherrors \in BOOLEAN :
         GroupIterRecordsCall(DatasetGroup({1, 2}, w[1], w[2]), witherrors)

SpecGroup == InitGroup /\ [][NextGroup]_vars
----------------------------------------------------------------------------
(* Claims about split *)

\* The times of the non-null records of dataset d at or after / at or before t.
TimesFrom(st, d, t) ==
    {st.records[i].time : i \in {j \in DOMAIN st.records :
        /\ st.records[j].ds = d
        /\ st.records[j].value # NULL
        /\ st.records[j].time >= t}}

TimesUpTo(st, d, t) ==
    {st.records[i].time : i \in {j \in DOMAIN st.records :
        /\ st.records[j].ds = d
        /\ st.records[j].value # NULL
        /\ st.records[j].time <= t}}


\* The record table after a full split of d at t into new, from the table before.
SplitTable(before, d, t, new) ==
    [i \in DOMAIN before.records |->
        IF /\ before.records[i].ds = d
           /\ before.records[i].time >= MinOf(TimesFrom(before, d, t))
        THEN [before.records[i] EXCEPT !.ds = new]
        ELSE before.records[i]]

SplitDone == pc = "idle" /\ result = [op |-> "split", status |-> "ok"]

\* C1: after a successful split(t) of a Timeseries with a non-null record at or
\* before t (last) and one at or after t (next), every record of the original
\* is in the original or in the new dataset and in one only, nothing else
\* changed in the record table, the new dataset holds exactly the records with
\* time >= next.time, original.end = last.time and new.start = next.time.
C1_SplitPartitions ==
    /\ (/\ pc = "idle" /\ result.op = "split" /\ call.op = "split"
        /\ TimesFrom(call.before, call.d, call.time) # {}
        /\ TimesUpTo(call.before, call.d, call.time) # {})
       => result.status \in {"ok", "StoreUnavailable"}
    /\ SplitDone =>
        LET b == call.before
            d == call.d
            new == call.new
            nextTime == MinOf(TimesFrom(b, d, call.time))
            lastTime == MaxOf(TimesUpTo(b, d, call.time))
        IN  /\ TimesFrom(b, d, call.time) # {}
            /\ TimesUpTo(b, d, call.time) # {}
            /\ new \notin DOMAIN b.datasets
            /\ new \in DOMAIN datasets
            /\ DOMAIN records = DOMAIN b.records
            /\ \A i \in DOMAIN records :
                 /\ [records[i] EXCEPT !.ds = b.records[i].ds] = b.records[i]
                 /\ b.records[i].ds # d => records[i].ds = b.records[i].ds
                 /\ b.records[i].ds = d =>
                      /\ records[i].ds \in {d, new}
                      /\ records[i].ds = new <=> records[i].time >= nextTime
            /\ datasets[d].end = lastTime
            /\ datasets[new].start = nextTime

\* C1 witness: a split that left records in both datasets.
C1_Witness ==
    /\ SplitDone
    /\ \E i \in DOMAIN records : records[i].ds = call.d
    /\ \E i \in DOMAIN records : records[i].ds = call.new

\* C2: a split(t) of a Timeseries without a non-null record at or before t, or
\* without one at or after t, fails with InvalidSplitPoint and changes nothing:
\* records, end, comment and the set of datasets are as before, in the store
\* and in the session.
C2_InvalidSplitPoint ==
    (/\ call.op = "split"
     /\ pc # "idle" \/ result.op = "split"
     /\ \/ TimesFrom(call.before, call.d, call.time) = {}
        \/ TimesUpTo(call.before, call.d, call.time) = {})
    => /\ pc = "idle"
       /\ result = [op |-> "split", status |-> "InvalidSplitPoint"]
       /\ Store(datasets, records) = call.before
       /\ sess = call.before

\* C2 witness: a rejected split of a dataset that has records.
C2_Witness ==
    /\ result = [op |-> "split", status |-> "InvalidSplitPoint"]
    /\ \E i \in DOMAIN records : records[i].ds = call.d /\ records[i].value # NULL

\* C3: split is all-or-nothing.  While a split runs, and after it failed, the
\* committed store is the store before the call; after it returned, the store
\* is the full split; no record is owned by a dataset that does not exist, and
\* the record table has the rows it had.
C3_SplitAtomic ==
    (call.op = "split" /\ (pc # "idle" \/ result.op = "split")) =>
        /\ \A i \in DOMAIN records : records[i].ds \in DOMAIN datasets
        /\ DOMAIN records = DOMAIN call.before.records
        /\ IF SplitDone
           THEN /\ records = SplitTable(call.before, call.d, call.time, call.new)
                /\ DOMAIN datasets = DOMAIN call.before.datasets \cup {call.new}
                /\ sess = Store(datasets, records)
           ELSE Store(datasets, records) = call.before
        /\ (pc = "idle" /\ ~SplitDone) => sess = call.before

\* C3 witness: the store failed after at least one record was reassigned.
C3_Witness ==
    /\ pc = "idle"
    /\ result = [op |-> "split", status |-> "StoreUnavailable"]
    /\ call.op = "split"
    /\ "todo" \in DOMAIN call
    /\ call.new # 0
    /\ call.todo # SplitRecords(call.before.records, call.d, call.nextTime)
    /\ call.todo # {}
----------------------------------------------------------------------------
(* Claims about findvalue *)

\* The valid records of dataset d at or after / at or before t.
ValidFrom(recs, d, t) ==
    {i \in DOMAIN recs : recs[i].ds = d /\ recs[i].value # NULL
                          /\ ~recs[i].is_error /\ recs[i].time >= t}

ValidUpTo(recs, d, t) ==
    {i \in DOMAIN recs : recs[i].ds = d /\ recs[i].value # NULL
                          /\ ~recs[i].is_error /\ recs[i].time <= t}

Earliest(recs, S) == {i \in S : \A j \in S : recs[i].time <= recs[j].time}
Latest(recs, S) == {i \in S : \A j \in S : recs[i].time >= recs[j].time}

\* n seconds in ticks: 0.1 s is TieBreakTicks.
Seconds(n) == n * 10 * TieBreakTicks

\* The records (t = 0 s, v = 0) and (t = 10 s, v = 10) of the spec's example.
ExampleTable ==
    <<Record(1, 1, Seconds(0), Some(0), FALSE),
      Record(2, 1, Seconds(10), Some(10), FALSE)>>

Found == result.op = "findvalue"

\* C4: with a valid record at or before t (last) and one at or after t (next),
\* findvalue(t) returns (next.value, 0) when (next.time - t) + (t - last.time)
\* is below 0.1 s, and otherwise the interpolation that weights next by
\* (t - last.time)/span and last by (next.time - t)/span, with the smaller of
\* the two gaps as distance; records (0 s, 0) and (10 s, 10) give (5, 5 s) at
\* 5 s and (0, 0) at 0 s.  The values are the records' stored values.
C4_Interpolation ==
    /\ FindValue(ExampleTable, 1, Seconds(5))
         = [status |-> "ok", value |-> Rat(Seconds(10) * 5, Seconds(10)),
            dt |-> Seconds(5)]
    /\ FindValue(ExampleTable, 1, Seconds(0))
         = [status |-> "ok", value |-> Rat(0, 1), dt |-> 0]
    /\ Found =>
        LET t == result.time
            out == result.out
            A == Earliest(records, ValidFrom(records, result.d, t))
            B == Latest(records, ValidUpTo(records, result.d, t))
        IN  (A # {} /\ B # {}) =>
              /\ out.status = "ok"
              /\ \E n \in A, l \in B :
                   LET gapNext == records[n].time - t
                       gapLast == t - records[l].time
                       span == gapNext + gapLast
                   IN  IF span < TieBreakTicks
                       THEN /\ RatEq(out.value, Rat(Get(records[n].value), 1))
                            /\ out.dt = 0
                       ELSE /\ out.value[1] * span = out.value[2] *
                                 (Get(records[n].value) * gapLast
                                    + Get(records[l].value) * gapNext)
                            /\ out.dt <= gapLast /\ out.dt <= gapNext
                            /\ out.dt \in {gapLast, gapNext}

\* C4 witness: an interpolation between two different values, off the middle.
C4_Witness ==
    /\ Found
    /\ result.out.status = "ok"
    /\ result.out.dt > 0
    /\ result.out.value[2] >= TieBreakTicks
    /\ result.out.value[1] # 0
    /\ 2 * result.out.value[1] # result.out.value[2]
    /\ result.out.value[1] # result.out.value[2]

\* C5 (as claimed): with only one of last and next, findvalue(t) returns that
\* record's calibrated value raw * calibration_slope + calibration_offset and
\* the distance |t - record.time|.
C5_OneSidedCalibrated ==
    Found =>
        LET t == result.time
            out == result.out
            ds == datasets[result.d]
            A == Earliest(records, ValidFrom(records, result.d, t))
            B == Latest(records, ValidUpTo(records, result.d, t))
        IN  ((A = {}) # (B = {})) =>
              /\ out.status = "ok"
              /\ \E i \in A \cup B :
                   /\ RatEq(out.value,
                            Rat(Get(records[i].value) * ds.calibration_slope
                                  + ds.calibration_offset, 1))
                   /\ out.dt \in {t - records[i].time, records[i].time - t}
                   /\ out.dt >= 0

\* C6: findvalue(t) on a Timeseries without any valid (non-null, non-error)
\* record fails with NoData for every t, and null or error-flagged records are
\* never last or next: the result is the one of the table without them.
C6_NoData ==
    Found =>
        LET d == result.d
            valid == {i \in DOMAIN records : records[i].ds = d
                        /\ records[i].value # NULL /\ ~records[i].is_error}
            IsValid(r) == r.value # NULL /\ ~r.is_error
        IN  /\ valid = {} => result.out.status = "NoData"
            /\ valid # {} => result.out.status = "ok"
            /\ result.out = FindValue(SelectSeq(records, IsValid), d, result.time)

\* C6 witness: NoData on a dataset whose records are all null or errors.
C6_Witness ==
    /\ Found
    /\ result.out.status = "NoData"
    /\ \E i \in DOMAIN records : records[i].value = NULL
    /\ \E i \in DOMAIN records : records[i].value # NULL /\ records[i].is_error

----------------------------------------------------------------------------
(* Claims about findjumps *)

Jumped == result.op = "findjumps"

\* The valid records of the window of the last findjumps call.
JumpValid ==
    LET ds == datasets[result.d]
        lo == IF result.start = NONE THEN ds.start ELSE result.start[1]
        hi == IF result.end = NONE THEN ds.end ELSE result.end[1]
    IN  {i \in DOMAIN records :
            /\ records[i].ds = result.d
            /\ records[i].value # NULL
            /\ ~records[i].is_error
            /\ lo <= records[i].time
            /\ records[i].time <= hi}

\* Row i comes before row j in ascending time, rows of equal time in the
\* store's order.
Before(i, j) ==
    \/ records[i].time < records[j].time
    \/ records[i].time = records[j].time /\ i < j

\* The rows of W immediately before row i: one row, or none for the first.
Preceding(W, i) ==
    {j \in W : Before(j, i) /\ \A k \in W : Before(k, i) => (k = j \/ Before(k, j))}

Yielded == {result.out[k] : k \in DOMAIN result.out}

YieldedInOrder ==
    \A a, b \in DOMAIN result.out : a < b => Before(result.out[a], result.out[b])

C9_StrictlyAscending ==
    (Jumped /\ result.threshold > 0) =>
        \A a, b \in DOMAIN result.out :
            a < b => records[result.out[a]].time < records[result.out[b]].time

\* C9 (amended): for threshold > 0, findjumps(threshold, start, end) yields, in
\* ascending time order (records of equal time in the store's order) and each
\* at most once, exactly the valid records of [start or dataset.start, end or
\* dataset.end] whose raw value differs by more than threshold from the raw
\* value of the valid record immediately before them in that order; the first
\* valid record is never yielded, and a second call yields the same sequence.
C9_Jumps ==
    (Jumped /\ result.threshold > 0) =>
        /\ YieldedInOrder
        /\ Yielded =
             {i \in JumpValid : \E j \in Preceding(JumpValid, i) :
                 \/ records[i].value[1] - records[j].value[1] > result.threshold
                 \/ records[j].value[1] - records[i].value[1] > result.threshold}
        /\ \A i \in Yielded : Preceding(JumpValid, i) # {}
        /\ result.prev # NONE => Get(result.prev) = result.out

\* C9 witness: a second call that yields a jump over a record that is not
\* valid, and leaves a valid record out.
C9_Witness ==
    /\ Jumped
    /\ result.threshold > 0
    /\ result.prev # NONE
    /\ \E i \in Yielded : \E j \in Preceding(JumpValid, i) :
         \E k \in DOMAIN records :
            /\ k \notin JumpValid
            /\ records[j].time <= records[k].time
            /\ records[k].time <= records[i].time
    /\ Cardinality(JumpValid) > Len(result.out)
----------------------------------------------------------------------------
(* Claims about statistics *)

\* C10 (as claimed): statistics() on a Timeseries without a non-null, non-error
\* record returns (0.0, 0.0, 0), whatever the calibration of the dataset.
C10_EmptyStatistics ==
    (/\ result.op = "statistics"
     /\ \A i \in DOMAIN records :
          records[i].ds = result.d =>
              records[i].value = NULL \/ records[i].is_error)
    => /\ result.out.n = 0
       /\ result.out.mean[2] # 0 /\ result.out.mean[1] = 0
       /\ result.out.std.sq[2] # 0 /\ result.out.std.sq[1] = 0

\* The rationals a and b are numbers (not NaN) and equal.
SameNumber(a, b) == a[2] # 0 /\ b[2] # 0 /\ RatEq(a, b)

\* The ids of the records of dataset d that hold a value and are no errors.
ValidOf(recs, d) == {i \in RecordsOf(recs, d) : Valid(recs[i])}

RECURSIVE SumOfValues(_, _)
SumOfValues(recs, S) ==
    IF S = {} THEN 0
    ELSE LET i == CHOOSE i \in S : TRUE
         IN  Get(recs[i].value) + SumOfValues(recs, S \ {i})

\* C11 (as claimed): statistics() is computed over exactly the non-null,
\* non-error records: the count is the number of these records and the mean
\* is the mean of their calibrated values, so error records never change it.
C11_OverValidRecords ==
    result.op = "statistics" =>
        LET V == ValidOf(records, result.d)
            n == Cardinality(V)
            ds == datasets[result.d]
        IN  /\ result.out.n = n
            /\ n > 0 =>
                 SameNumber(result.out.mean,
                            Rat(ds.calibration_slope * SumOfValues(records, V)
                                  + ds.calibration_offset * n, n))

\* C12 (as claimed): the push-down aggregate path and the fallback path of
\* statistics() return the same count, mean and standard deviation for every
\* dataset state.
C12_PathsAgree ==
    result.op = "statistics" =>
        LET other == Statistics(records, datasets[result.d], result.d,
                                ~result.pushdown)
        IN  /\ result.out.n = other.n
            /\ SameNumber(result.out.mean, other.mean)
            /\ result.out.std.sign = other.std.sign
            /\ SameNumber(result.out.std.sq, other.std.sq)

\* C12, narrowed to datasets without error records and without null values
\* (still refuted: sample against population deviation).
C12_PathsAgreeOnCleanData ==
    (/\ result.op = "statistics"
     /\ \A i \in DOMAIN records : Valid(records[i]))
    => LET other == Statistics(records, datasets[result.d], result.d,
                               ~result.pushdown)
       IN  /\ result.out.n = other.n
           /\ SameNumber(result.out.mean, other.mean)
           /\ result.out.std.sign = other.std.sign
           /\ SameNumber(result.out.std.sq, other.std.sq)
----------------------------------------------------------------------------
(* Claims about adjusttimespan *)

RecordTimes(recs, d) == {recs[i].time : i \in RecordsOf(recs, d)}

\* C13 (as claimed): adjusttimespan() only widens.  For every Timeseries with
\* start and end set, one without records included, the call completes and
\* leaves start' = min(start, earliest record time) and
\* end' = max(end, latest record time); without records the span is unchanged.
C13_OnlyWidens ==
    result.op = "adjusttimespan" =>
        LET T == RecordTimes(sess.records, result.d)
            now == sess.datasets[result.d]
        IN  /\ result.status = "ok"
            /\ now.start = MinOf(T \cup {result.before.start})
            /\ now.end = MaxOf(T \cup {result.before.end})
            /\ now.start <= result.before.start
            /\ now.end >= result.before.end
            /\ \A t \in T : now.start <= t /\ t <= now.end
----------------------------------------------------------------------------
(* Claims about finddateGaps *)

GapsFound == result.op = "finddateGaps"

\* The candidate datasets of the call in result.
GapCandidatesOfCall ==
    GapCandidates(datasets, result.site, result.source,
                  result.startdate, result.enddate)

\* The candidates of the first occurring value type, in start order.
GapListOfCall ==
    LET cand == GapCandidatesOfCall
        vt == datasets[GapSorted(datasets, cand)[1]].valuetype
    IN  GapSorted(datasets, {i \in cand : datasets[i].valuetype = vt})

\* The gaps (d1.end, d2.start) of the consecutive datasets whose boundary
\* distance d2.start - d1.end exceeds one day.
RECURSIVE ClaimedInnerGaps(_)
ClaimedInnerGaps(order) ==
    IF Len(order) < 2 THEN <<>>
    ELSE LET d1 == datasets[order[1]]
             d2 == datasets[order[2]]
         IN  (IF d2.start - d1.end > OneDay
              THEN << <<d1.end, d2.start>> >> ELSE <<>>)
             \o ClaimedInnerGaps(Tail(order))

\* C14 (as claimed): finddateGaps returns the leading gap (start, first.start)
\* when start is before the first dataset, a gap (d1.end, d2.start) for each
\* pair of consecutive datasets more than one day apart, and the trailing gap
\* (last.end, end) when end is after the last dataset; every interval (a, b)
\* has a <= b.
C14_GapsReported ==
    (GapsFound /\ GapCandidatesOfCall # {}) =>
        LET order == GapListOfCall
            first == datasets[order[1]]
            last == datasets[order[Len(order)]]
            start == OrElse(result.startdate, first.start)
            end == OrElse(result.enddate, last.end)
        IN  /\ result.out # NONE
            /\ Get(result.out) =
                 (IF start < first.start
                  THEN << <<start, first.start>> >> ELSE <<>>)
                 \o ClaimedInnerGaps(order)
                 \o (IF end > last.end THEN << <<last.end, end>> >> ELSE <<>>)
            /\ \A k \in DOMAIN Get(result.out) :
                 Get(result.out)[k][1] <= Get(result.out)[k][2]

\* C15: without a candidate dataset finddateGaps returns None when no bounds
\* were given and the single interval [(start, end)] when both were given; it
\* returns nothing else, so no gap list is computed from an empty list.
C15_NoCandidate ==
    (GapsFound /\ GapCandidatesOfCall = {}) =>
        /\ (result.startdate = NONE /\ result.enddate = NONE)
             => result.out = NONE
        /\ (result.startdate # NONE /\ result.enddate # NONE)
             => result.out = Some(<< <<result.startdate, result.enddate>> >>)
        /\ result.out # NONE
             => /\ result.startdate # NONE /\ result.enddate # NONE
                /\ Get(result.out) = << <<result.startdate, result.enddate>> >>

\* C15 witness: datasets of the site exist but the bounds exclude them all,
\* and the call answered the bounding interval.
C15_Witness ==
    /\ GapsFound
    /\ GapCandidatesOfCall = {}
    /\ \E i \in DOMAIN datasets :
         datasets[i].site = result.site /\ datasets[i].source = result.source
    /\ result.out = Some(<< <<result.startdate, result.enddate>> >>)
----------------------------------------------------------------------------
(* Claims about TransformedTimeseries *)

Derived == result.op = "asseries"

\* The series of source src for the window of the call in result.
SourceSeries(src) ==
    AsSeriesBetween(records, datasets[src], src, result.start, result.end)

Ascending(s) == \A j, k \in DOMAIN s : j < k => s[j].time <= s[k].time

\* How often timestamp t occurs in the series s.
Occurrences(s, t) == Cardinality({k \in DOMAIN s : s[k].time = t})

RECURSIVE SumOver(_, _)
SumOver(S, f) ==
    IF S = {} THEN 0
    ELSE LET i == CHOOSE i \in S : TRUE IN f[i] + SumOver(S \ {i}, f)

\* C16: with the identity expression "x" and exactly one source, asseries of
\* the transformed dataset equals the calibrated series of the source: same
\* timestamps, same values, ascending time; the calibration of the
\* transformed dataset itself is not applied.
C16_IdentityRoundTrip ==
    (/\ Derived
     /\ datasets[result.d].expression = "x"
     /\ Cardinality(datasets[result.d].sources) = 1)
    => LET src == CHOOSE i \in datasets[result.d].sources : TRUE
       IN  /\ result.out = SourceSeries(src)
           /\ Ascending(result.out)

\* C16 witness: an identity transform of one source with a calibration of its
\* own, whose series holds a number.
C16_Witness ==
    /\ Derived
    /\ datasets[result.d].expression = "x"
    /\ Cardinality(datasets[result.d].sources) = 1
    /\ datasets[result.d].calibration_slope # 1
    /\ \E k \in DOMAIN result.out : result.out[k].value[2] # 0

\* C17: asseries of a transformed dataset concatenates the series of its
\* sources and sorts without merging: ascending time, as long as the series
\* of the sources together, every timestamp as often as in the sources
\* together.
C17_ConcatenatedNotMerged ==
    Derived =>
        LET srcs == datasets[result.d].sources
        IN  /\ Ascending(result.out)
            /\ Len(result.out) = SumOver(srcs, [i \in srcs |-> Len(SourceSeries(i))])
            /\ \A t \in 0..MaxTimeTR :
                 Occurrences(result.out, t) =
                     SumOver(srcs, [i \in srcs |-> Occurrences(SourceSeries(i), t)])

\* C17 witness: two sources hold the same timestamp once each, and the result
\* holds it twice.
C17_Witness ==
    /\ Derived
    /\ \E i, j \in datasets[result.d].sources : \E t \in 0..MaxTimeTR :
         /\ i # j
         /\ Occurrences(SourceSeries(i), t) = 1
         /\ Occurrences(SourceSeries(j), t) = 1
         /\ Occurrences(result.out, t) = 2

\* C18 (as claimed): iterrecords of a transformed dataset with a
\* scalar-separable expression yields one record per non-error source record
\* of the window in ascending time, and its (time, value) pairs are those of
\* asseries for the same window.
C18_PathsAgree ==
    result.op = "iterrecords" =>
        LET batched == TransformedAsSeries(records, datasets, result.d,
                                           result.start, result.end)
        IN  /\ result.status = "ok"
            /\ Len(result.out) = Len(batched)
            /\ \A k \in DOMAIN result.out :
                 /\ result.out[k].time = batched[k].time
                 /\ result.out[k].value = batched[k].value
----------------------------------------------------------------------------
(* Claims about updatetime and suitablesources *)

\* C19: updatetime() on a transformed dataset with at least one source sets
\* start to the least start and end to the greatest end of its sources;
\* without sources it fails and leaves start and end unchanged.
C19_UpdateTime ==
    result.op = "updatetime" =>
        LET now == sess.datasets[result.d]
            srcs == result.before.sources
        IN  IF srcs # {}
            THEN /\ result.status = "ok"
                 /\ \A i \in srcs : /\ now.start <= sess.datasets[i].start
                                    /\ now.end >= sess.datasets[i].end
                 /\ \E i \in srcs : now.start = sess.datasets[i].start
                 /\ \E i \in srcs : now.end = sess.datasets[i].end
            ELSE /\ result.status # "ok"
                 /\ now = result.before

\* C19 witness: two sources, the least start from one and the greatest end
\* from the other, and the span of the transformed dataset changed to them.
C19_Witness ==
    /\ result.op = "updatetime"
    /\ result.status = "ok"
    /\ \E i, j \in result.before.sources :
         /\ sess.datasets[i].start < sess.datasets[j].start
         /\ sess.datasets[i].end < sess.datasets[j].end
         /\ sess.datasets[result.d].start = sess.datasets[i].start
         /\ sess.datasets[result.d].end = sess.datasets[j].end
    /\ sess.datasets[result.d].start # result.before.start
    /\ sess.datasets[result.d].end # result.before.end

\* C19 witness of the failure: updatetime() without sources has failed.
C19_WitnessEmpty ==
    /\ result.op = "updatetime"
    /\ result.before.sources = {}
    /\ result.status = "ValueError"

\* The transformed dataset of the sources specification.
Target == Len(datasets)

\* C20: suitablesources() returns only Timeseries of the site of the
\* transformed dataset that are no sources yet and, once a source is chosen,
\* only those of the value type of the source chosen first; so all sources
\* added from suitablesources() share one site and one value type.
C20_ComparableSources ==
    call.op = "sources" =>
        /\ \A i, j \in datasets[Target].sources :
             /\ datasets[i].type = "timeseries"
             /\ datasets[i].site = datasets[Target].site
             /\ datasets[i].valuetype = datasets[j].valuetype
        /\ result.op = "suitablesources" =>
             \A i \in result.out :
                 /\ datasets[i].type = "timeseries"
                 /\ datasets[i].site = datasets[Target].site
                 /\ i \notin datasets[Target].sources
                 /\ call.first # NONE =>
                      datasets[i].valuetype = datasets[Get(call.first)].valuetype

\* C20 witness: two sources are chosen, and suitablesources() offered a third
\* Timeseries and held back one of the site with another value type.
C20_Witness ==
    /\ call.op = "sources"
    /\ result.op = "suitablesources"
    /\ Cardinality(datasets[Target].sources) = 2
    /\ result.out # {}
    /\ \E i \in DOMAIN datasets :
         /\ datasets[i].type = "timeseries"
         /\ datasets[i].site = datasets[Target].site
         /\ i \notin datasets[Target].sources
         /\ i \notin result.out
----------------------------------------------------------------------------
(* Claims about copy and removedataset *)

\* C21 (as claimed): copy(newId) returns a dataset with identity newId whose
\* metadata fields, the variant fields of a TransformedTimeseries included,
\* equal the original's, and without records; the original's fields and
\* records are unchanged.
C21_CopyKeepsAllFields ==
    result.op = "copy" =>
        /\ result.new \notin DOMAIN result.before.datasets
        /\ result.new \in DOMAIN sess.datasets
        /\ sess.datasets[result.new] = result.before.datasets[result.d]
        /\ RecordsOf(sess.records, result.new) = {}
        /\ sess.records = result.before.records
        /\ \A k \in DOMAIN result.before.datasets :
             sess.datasets[k] = result.before.datasets[k]

Listed == {call.args[k] : k \in DOMAIN call.args}

Dangling ==
    \E t \in DOMAIN datasets :
        /\ datasets[t].type = "transformed_timeseries"
        /\ \E s \in datasets[t].sources : s \notin DOMAIN datasets

\* C23 (as claimed): no sequence of removedataset calls reaches a state in
\* which a transformed dataset names a source that no longer exists without
\* an error having been reported to the caller.
C23_NoSilentDangling ==
    Dangling => (pc = "idle" /\ result.op = "removedataset"
                   /\ result.status \notin {"ok", "running"})
----------------------------------------------------------------------------
(* Claims about addrecord *)

Added == result.op = "addrecord"

\* The value of the call lies below the minimum or above the maximum of the
\* value type, where these are set.
BelowOrAbove ==
    LET vt == result.before.datasets[result.d].valuetype
    IN  \/ vt.minvalue # NULL /\ result.value < Get(vt.minvalue)
        \/ vt.maxvalue # NULL /\ result.value > Get(vt.maxvalue)

\* The time of the call lies outside [start, end] of the dataset.
OutsideSpan ==
    \/ result.time < result.before.datasets[result.d].start
    \/ result.time > result.before.datasets[result.d].end

\* The call has an id for the new record: one is given, or the dataset has
\* records to take the highest id from.
IdAvailable ==
    \/ result.Id # NONE /\ Get(result.Id) # 0
    \/ RecordsOf(result.before.records, result.d) # {}

----------------------------------------------------------------------------
(* Claims about calibration *)

\* v * slope + offset of dataset d for the raw value v, null for null.
Linear(d, v) ==
    IF v = NULL THEN NULL
    ELSE Some(Get(v) * datasets[d].calibration_slope
                + datasets[d].calibration_offset)

\* C26: the calibrated value of a raw value v is v * slope + offset of the
\* owning dataset, also with slope 0, and null for a missing value, from
\* Record.calibrated, calibratevalue and iterrecords alike; computing it
\* never changes the stored raw values.
C26_LinearCalibration ==
    /\ [](/\ result.op = "calibrated" =>
               result.out = Linear(records[result.row].ds,
                                   records[result.row].value)
          /\ result.op = "calibratevalue" =>
               result.out = Linear(result.d, result.value)
          /\ (result.op = "iterrecords" /\ result.d = 1
                /\ \A i \in DOMAIN records : records[i].ds = 1) =>
               \A k \in DOMAIN result.out :
                   /\ \E i \in DOMAIN records :
                        /\ records[i].id = result.out[k].id
                        /\ records[i].value = result.out[k].rawvalue
                   /\ result.out[k].value = Linear(1, result.out[k].rawvalue))
    /\ [][result'.op \in {"calibrated", "calibratevalue", "iterrecords"}
            => UNCHANGED <<datasets, records, sess>>]_vars

\* C26 witness: a record of value 0.0 in a dataset of slope 0 and offset 1
\* was read as 1.0.
C26_Witness ==
    /\ result.op = "calibrated"
    /\ datasets[1].calibration_slope = 0
    /\ records[result.row].value = Some(0)
    /\ result.out = Some(1)
----------------------------------------------------------------------------
(* Claims about concurrent addrecord requests *)

\* C25 (as claimed): two concurrent addrecord requests without an Id on one
\* dataset with records are serialized: in every interleaving both store
\* their record, with different ids, and no two records of a dataset share
\* an id; requests on different datasets do not affect each other.
C25_Serialized ==
    /\ \A i, j \in DOMAIN records :
         (i # j /\ records[i].ds = records[j].ds) => records[i].id # records[j].id
    /\ (/\ \A p \in Requests : pc[p] = "done"
        /\ \A p \in Requests :
             RecordsOf(sess.records, call[p].d) # {})
       => /\ \A p \in Requests : result[p].status = "ok"
          /\ call[1].d = call[2].d => result[1].id # result[2].id
----------------------------------------------------------------------------
(* Claims about the life of datasets *)

\* C27 (as claimed): in every state reached by any sequence of DatasetAPI.new,
\* copy, addrecord, adjusttimespan, split and updatetime, every dataset has
\* start <= end, in the session and in the store.
C27_StartNotAfterEnd ==
    /\ \A d \in DOMAIN sess.datasets :
         sess.datasets[d].start <= sess.datasets[d].end
    /\ \A d \in DOMAIN datasets : datasets[d].start <= datasets[d].end
----------------------------------------------------------------------------
(* Claims about DatasetGroup *)

\* The records of the member datasets that lie in the window of the group
\* and pass the error filter.
GroupMembers(group, witherrors) ==
    {i \in DOMAIN sess.records :
        /\ sess.records[i].ds \in group.datasetids
        /\ witherrors \/ ~sess.records[i].is_error
        /\ group.start # NONE => sess.records[i].time >= Get(group.start)
        /\ group.end # NONE => sess.records[i].time <= Get(group.end)}

AscendingTimes(out) ==
    \A j, k \in DOMAIN out : j < k => out[j].time <= out[k].time

\* C28 (as claimed): asseries and iterrecords of a DatasetGroup both deliver
\* the entries of all member datasets in ascending time across the datasets,
\* and every member record within the window of the group is delivered.
C28_CombinedTimeSorted ==
    /\ result.op = "group.asseries" =>
         /\ AscendingTimes(result.out)
         /\ \A i \in GroupMembers(result.group, FALSE) :
              \E k \in DOMAIN result.out :
                  result.out[k].time = sess.records[i].time
    /\ result.op = "group.iterrecords" =>
         /\ AscendingTimes(result.out)
         /\ \A i \in GroupMembers(result.group, result.witherrors) :
              \E k \in DOMAIN result.out :
                  /\ result.out[k].id = sess.records[i].id
                  /\ result.out[k].dataset = sess.records[i].ds
----------------------------------------------------------------------------
(* Claims about record ids and the containment of records *)

\* The ids of the records of dataset d in the session view st.
IdsOf(st, d) == {st.records[i].id : i \in RecordsOf(st.records, d)}

\* C29 (as claimed): addrecord without an Id, for a time within the span,
\* succeeds, on a dataset without records too, and the new id is greater than
\* every id the dataset held; and no two records of a dataset share an id.
C29_NextIdAssigned ==
    /\ (/\ result.op = "addrecord"
        /\ result.Id = NONE
        /\ result.before.datasets[result.d].start <= result.time
        /\ result.time <= result.before.datasets[result.d].end)
       => /\ result.status = "ok"
          /\ \A id \in IdsOf(result.before, result.d) : result.id > id
          /\ IdsOf(result.before, result.d) # {} =>
                result.id - 1 \in IdsOf(result.before, result.d)
    /\ \A i, j \in DOMAIN sess.records :
         (i # j /\ sess.records[i].ds = sess.records[j].ds)
            => sess.records[i].id # sess.records[j].id

\* C30 (as claimed): in every state reached by addrecord, adjusttimespan and
\* split from datasets whose records lie within their span, the time of
\* every record lies within [start, end] of the dataset that owns it.
C30_RecordsWithinSpan ==
    \A i \in DOMAIN sess.records :
        /\ sess.datasets[sess.records[i].ds].start <= sess.records[i].time
        /\ sess.records[i].time <= sess.datasets[sess.records[i].ds].end

====
